---- MODULE Spec2Model ----
(***************************************************************************)
(* Image optimization cache and EXIF metadata cache of the gallery site:   *)
(*   src/src/utils/image-cache.ts     fingerprint, options key, entry files *)
(*   src/src/utils/metadata-cache.ts  per-image metadata entries            *)
(* Strings are TLA+ strings, optional fields are sequences of length 0     *)
(* (undefined) or 1, a cache directory is a function from file names to    *)
(* file contents.                                                          *)
(***************************************************************************)
EXTENDS Integers, Sequences, FiniteSets, TLC

VARIABLES
    imageCacheDir,      \* files of .astro/image-cache: name -> parsed JSON content
    metadataCacheDir,   \* files of .astro/metadata-cache: name -> content
    savedImages,        \* history: (F, K) -> items of the latest save not yet swept
    everSavedMetadata,  \* history: (F, url) pairs for which saveCachedMetadata ran
    savedMetadata,      \* history: (F, url) -> metadata of the latest save not yet swept
    lastOp,             \* the cache call that ran last, with arguments and result
    hashArgs,           \* two listings handed to generateMetadataHash
    hashResults,        \* their fingerprints, <<>> before the call
    keyArgs,            \* two options records handed to getOptimizationCacheKey
    keyResults,         \* their keys, <<>> before the call
    localStorage,       \* the browser's storage for the site: key -> string
    storageMode,        \* "ok", "quota" (setItem throws) or "denied" (every access throws)
    show,               \* AgeGate: the show signal
    mounted,            \* AgeGate: the mounted signal
    inFlight,           \* the asynchronous calls started and not yet settled
    disk,               \* the project's file tree: absolute path -> content
    musicPlayer         \* MusicPlayer: its signals, <<>> while not mounted

vars == <<imageCacheDir, metadataCacheDir, savedImages, everSavedMetadata,
          savedMetadata, lastOp, hashArgs, hashResults, keyArgs, keyResults,
          localStorage, storageMode, show, mounted, inFlight, disk, musicPlayer>>

pageVars == <<localStorage, storageMode, show, mounted>>

cacheVars == <<imageCacheDir, metadataCacheDir, savedImages, everSavedMetadata,
               savedMetadata, lastOp>>

(***************************************************************************)
(* Bounds                                                                  *)
(***************************************************************************)
\* longest splash list handed to the hasher
MaxSplash == 2
\* longest screenshot list handed to the hasher
MaxShots == 1
\* most entry files held by the two cache directories together
MaxFiles == 2

(***************************************************************************)
(* Strings and sequences                                                   *)
(***************************************************************************)
Range(s) == {s[i] : i \in 1..Len(s)}

Front(s) == SubSeq(s, 1, Len(s) - 1)

Last(s) == s[Len(s)]

SeqsUpTo(S, n) == UNION {[1..k -> S] : k \in 0..n}

Count(x, s) == Cardinality({i \in 1..Len(s) : s[i] = x})

\* s and t hold the same elements the same number of times
IsPermutation(s, t) ==
    /\ Len(s) = Len(t)
    /\ \A x \in Range(s) \cup Range(t) : Count(x, s) = Count(x, t)

\* String.prototype.startsWith
startsWith(str, prefix) ==
    /\ Len(str) >= Len(prefix)
    /\ SubSeq(str, 1, Len(prefix)) = prefix

\* String.prototype.endsWith
endsWith(str, suffix) ==
    /\ Len(str) >= Len(suffix)
    /\ SubSeq(str, Len(str) - Len(suffix) + 1, Len(str)) = suffix

Quote(s) == "\"" \o s \o "\""

\* Array elements joined by commas, as JSON.stringify writes an array
RECURSIVE JoinComma(_)
JoinComma(texts) ==
    IF texts = <<>> THEN ""
    ELSE IF Len(texts) = 1 THEN texts[1]
    ELSE texts[1] \o "," \o JoinComma(Tail(texts))

\* createHash("sha256").update(data).digest("hex"): a digest is taken to be
\* collision free, so it is written as a string that determines its input
Sha256Hex(data) == "sha256(" \o data \o ")"

\* digest.slice(0, 16): the first 16 hex digits, also taken to be collision free
Slice16(digest) == "p16:" \o digest

(***************************************************************************)
(* MediaItem                                                               *)
(***************************************************************************)
MediaItem(url, name, size, lastModified) ==
    [url |-> url, name |-> name, alt |-> name, size |-> size,
     lastModified |-> lastModified, originalUrl |-> <<>>]

UrlA == "https://cdn/a.png"
UrlB == "https://cdn/b.png"

\* ICU collation order of the URLs and file names used, for
\* String.prototype.localeCompare: white space sorts before punctuation,
\* punctuation before letters, and case is a tie-breaker only
Collation ==
    <<"./a.png", "a b.png", "a.png", "B.PNG", "g.gif", UrlA, UrlB,
      "n\n.png", "other.txt", "README">>

localeCompare(a, b) ==
    (CHOOSE i \in 1..Len(Collation) : Collation[i] = a)
  - (CHOOSE i \in 1..Len(Collation) : Collation[i] = b)

ItemA == MediaItem(UrlA, "a.png", <<>>, <<>>)
\* the same file reached through another link text: same url, other name
ItemADot == MediaItem(UrlA, "./a.png", <<>>, <<>>)
ItemASize == MediaItem(UrlA, "a.png", <<1000>>, <<>>)
ItemADate == MediaItem(UrlA, "a.png", <<>>, <<"01/Jan/2024 00:00">>)
ItemB == MediaItem(UrlB, "b.png", <<>>, <<>>)

HashItems == {ItemA, ItemADot, ItemASize, ItemADate, ItemB}

HashInputs ==
    {[splashScreens |-> s, screenshots |-> c] :
        s \in SeqsUpTo(HashItems, MaxSplash), c \in SeqsUpTo(HashItems, MaxShots)}

(***************************************************************************)
(* generateMetadataHash                                                    *)
(***************************************************************************)
\* the projection of lines 33-38 and 39-44: url, name, size, lastModified
Project(item) ==
    [url |-> item.url, name |-> item.name, size |-> item.size,
     lastModified |-> item.lastModified]

\* Array.prototype.sort is stable: an element goes after every element that
\* does not compare greater
RECURSIVE InsertByUrl(_, _)
InsertByUrl(sorted, x) ==
    IF sorted = <<>> THEN <<x>>
    ELSE IF localeCompare(Last(sorted).url, x.url) <= 0 THEN Append(sorted, x)
    ELSE Append(InsertByUrl(Front(sorted), x), Last(sorted))

RECURSIVE SortByUrl(_)
SortByUrl(items) ==
    IF items = <<>> THEN <<>>
    ELSE InsertByUrl(SortByUrl(Front(items)), Last(items))

\* JSON.stringify of a projected item: a property whose value is undefined
\* is left out
ProjectedJSON(p) ==
    "{\"url\":" \o Quote(p.url) \o ",\"name\":" \o Quote(p.name)
    \o (IF p.size = <<>> THEN "" ELSE ",\"size\":" \o ToString(p.size[1]))
    \o (IF p.lastModified = <<>> THEN ""
        ELSE ",\"lastModified\":" \o Quote(p.lastModified[1]))
    \o "}"

ProjectedListJSON(ps) ==
    "[" \o JoinComma([i \in 1..Len(ps) |-> ProjectedJSON(ps[i])]) \o "]"

generateMetadataHash(splashScreens, screenshots) ==
    LET metadata ==
            [splashScreens |-> [i \in 1..Len(splashScreens) |-> Project(splashScreens[i])],
             screenshots |-> [i \in 1..Len(screenshots) |-> Project(screenshots[i])]]
        sorted ==
            [splashScreens |-> SortByUrl(metadata.splashScreens),
             screenshots |-> SortByUrl(metadata.screenshots)]
    IN Sha256Hex("{\"splashScreens\":" \o ProjectedListJSON(sorted.splashScreens)
                 \o ",\"screenshots\":" \o ProjectedListJSON(sorted.screenshots) \o "}")

(***************************************************************************)
(* generateCacheKey / getOptimizationCacheKey                              *)
(***************************************************************************)
Widths == {<<>>, <<0>>, <<600>>, <<800>>}
Qualities == {<<>>, <<0>>, <<80>>, <<90>>}
Formats == {<<>>, <<"webp">>, <<"avif">>}

OptionsRecords == [width : Widths, quality : Qualities, format : Formats]

\* a || b on an optional number: undefined and 0 are falsy
OrNumber(opt, default) == IF opt = <<>> \/ opt = <<0>> THEN default ELSE opt[1]

\* a || b on an optional format name (the format names are non-empty)
OrString(opt, default) == IF opt = <<>> THEN default ELSE opt[1]

\* the key without the format
generateCacheKeyNoFormat(options) ==
    LET opts == [width |-> OrNumber(options.width, 600),
                 quality |-> OrNumber(options.quality, 80)]
    IN Slice16(Sha256Hex("{\"width\":" \o ToString(opts.width)
                         \o ",\"quality\":" \o ToString(opts.quality) \o "}"))

generateCacheKey(options) ==
    LET opts == [width |-> OrNumber(options.width, 600),
                 quality |-> OrNumber(options.quality, 80),
                 format |-> OrString(options.format, "webp")]
    IN Slice16(Sha256Hex("{\"width\":" \o ToString(opts.width)
                         \o ",\"quality\":" \o ToString(opts.quality)
                         \o ",\"format\":" \o Quote(opts.format) \o "}"))

getOptimizationCacheKey(options) == generateCacheKey(options)

(***************************************************************************)
(* Idle values of the variables a specification does not use               *)
(***************************************************************************)
EmptyDir == [n \in {} |-> 0]

NoOp == [op |-> "none"]

CacheIdle ==
    /\ imageCacheDir = EmptyDir
    /\ metadataCacheDir = EmptyDir
    /\ savedImages = EmptyDir
    /\ everSavedMetadata = {}
    /\ savedMetadata = EmptyDir
    /\ lastOp = NoOp

HashIdle == hashArgs = <<>> /\ hashResults = <<>>

KeyIdle == keyArgs = <<>> /\ keyResults = <<>>

\* no page is open: nothing stored, the age gate not constructed
PageIdle ==
    /\ localStorage = EmptyDir
    /\ storageMode = "ok"
    /\ show = FALSE
    /\ mounted = FALSE
    /\ inFlight = <<>>
    /\ disk = EmptyDir
    /\ musicPlayer = <<>>

(***************************************************************************)
(* SpecHash: generateMetadataHash applied to two listings                  *)
(***************************************************************************)
InitHash ==
    /\ hashArgs \in HashInputs \X HashInputs
    /\ hashResults = <<>>
    /\ CacheIdle
    /\ KeyIdle
    /\ PageIdle

GenerateMetadataHash ==
    /\ hashArgs # <<>>
    /\ hashResults = <<>>
    /\ hashResults' =
         <<generateMetadataHash(hashArgs[1].splashScreens, hashArgs[1].screenshots),
           generateMetadataHash(hashArgs[2].splashScreens, hashArgs[2].screenshots)>>
    /\ UNCHANGED <<hashArgs, keyArgs, keyResults, cacheVars, pageVars, inFlight, disk, musicPlayer>>

NextHash == GenerateMetadataHash

SpecHash == InitHash /\ [][NextHash]_vars

(***************************************************************************)
(* SpecKey: getOptimizationCacheKey applied to two options records         *)
(***************************************************************************)
InitKey ==
    /\ keyArgs \in OptionsRecords \X OptionsRecords
    /\ keyResults = <<>>
    /\ CacheIdle
    /\ HashIdle
    /\ PageIdle

GetOptimizationCacheKey ==
    /\ keyArgs # <<>>
    /\ keyResults = <<>>
    /\ keyResults' = <<getOptimizationCacheKey(keyArgs[1]),
                       getOptimizationCacheKey(keyArgs[2])>>
    /\ UNCHANGED <<keyArgs, hashArgs, hashResults, cacheVars, pageVars, inFlight, disk, musicPlayer>>

NextKey == GetOptimizationCacheKey

SpecKey == InitKey /\ [][NextKey]_vars

(***************************************************************************)
(* Inputs of the cache operations                                          *)
(***************************************************************************)
Listing(splashScreens, screenshots) ==
    [splashScreens |-> splashScreens, screenshots |-> screenshots]

\* the source listings the cache calls are made with: one with both
\* categories, and one in which a file is linked twice
Listings ==
    {Listing(<<ItemA>>, <<ItemB>>),
     Listing(<<ItemA, ItemADot>>, <<>>)}

Fingerprint(listing) ==
    generateMetadataHash(listing.splashScreens, listing.screenshots)

Fingerprints == {Fingerprint(l) : l \in Listings}

NoOptions == [width |-> <<>>, quality |-> <<>>, format |-> <<>>]

\* the optimization options of the requests
CacheOptions == {NoOptions, [NoOptions EXCEPT !.width = <<800>>]}

CacheKeys == {getOptimizationCacheKey(o) : o \in CacheOptions}

ImageUrls == {UrlA, UrlB}

\* ImageMetadataInfo: optional title, description, author, sources
MetadataInfo(title, description, author, sources) ==
    [title |-> title, description |-> description, author |-> author,
     sources |-> sources]

TitleOnly == MetadataInfo(<<"T">>, <<>>, <<>>, <<>>)
FullInfo == MetadataInfo(<<"T">>, <<"d">>, <<"someone">>, <<<<"https://post/1">>>>)

\* the values handed to saveCachedMetadata: <<>> is null
MetadataValues == {<<>>, <<TitleOnly>>, <<FullInfo>>}

(***************************************************************************)
(* optimizeImages: the optimized form of an item                           *)
(***************************************************************************)
\* getImage(...).src for a url under the effective options
OptimizedSrc(url, options) ==
    "/_image?href=" \o url
    \o "&w=" \o ToString(OrNumber(options.width, 600))
    \o "&q=" \o ToString(OrNumber(options.quality, 80))
    \o "&f=" \o OrString(options.format, "webp")

\* optimizeImage returns the optimized src, or the url itself when the
\* optimization failed; optimizeImages keeps the url as originalUrl
OptimizedItem(item, options, succeeded) ==
    [item EXCEPT !.url = IF succeeded THEN OptimizedSrc(item.url, options)
                         ELSE item.url,
                 !.originalUrl = <<item.url>>]

OptimizedLists(items, options) ==
    {[i \in 1..Len(items) |-> OptimizedItem(items[i], options, ok[i])] :
        ok \in [1..Len(items) -> BOOLEAN]}

\* every outcome of optimizing a listing under the options
OptimizedListings(listing, options) ==
    {Listing(s, c) : s \in OptimizedLists(listing.splashScreens, options),
                     c \in OptimizedLists(listing.screenshots, options)}

(***************************************************************************)
(* Image optimization cache (image-cache.ts)                               *)
(***************************************************************************)
\* the entry file named by the fingerprint alone
getCacheFilePathNoKey(metadataHash, cacheKey) == metadataHash \o "-" \o ".json"

getCacheFilePath(metadataHash, cacheKey) ==
    metadataHash \o "-" \o cacheKey \o ".json"

\* stat of the cache directory instead of the entry file
hasCachedImagesStatsDir(dir, metadataHash, cacheKey) == TRUE

\* stat succeeds exactly on an existing file; every failure is caught
hasCachedImages(dir, metadataHash, cacheKey) ==
    getCacheFilePath(metadataHash, cacheKey) \in DOMAIN dir

\* Array.prototype.find: the first mapping recorded for the url, if any
FindMapping(cachedMappings, url) ==
    LET hits == {i \in 1..Len(cachedMappings) : cachedMappings[i].originalUrl = url}
    IN IF hits = {} THEN <<>>
       ELSE <<cachedMappings[CHOOSE i \in hits : \A j \in hits : i <= j]>>

\* the items without a recorded mapping left out of the result
mapCachedItemsMatchedOnly(items, cachedMappings) ==
    LET isMatched(item) == FindMapping(cachedMappings, item.url) # <<>>
        matched == SelectSeq(items, isMatched)
    IN [i \in 1..Len(matched) |->
          [matched[i] EXCEPT !.url = FindMapping(cachedMappings, matched[i].url)[1].optimizedUrl,
                             !.originalUrl = <<matched[i].url>>]]

mapCachedItems(items, cachedMappings) ==
    [i \in 1..Len(items) |->
        LET cached == FindMapping(cachedMappings, items[i].url)
        IN IF cached # <<>>
           THEN [items[i] EXCEPT !.url = cached[1].optimizedUrl,
                                 !.originalUrl = <<items[i].url>>]
           ELSE [items[i] EXCEPT !.originalUrl = <<items[i].url>>]]

\* <<>> is null (no readable entry file), otherwise <<the re-attached items>>
loadCachedImages(dir, metadataHash, cacheKey, originalItems) ==
    LET cachePath == getCacheFilePath(metadataHash, cacheKey)
    IN IF cachePath \notin DOMAIN dir THEN <<>>
       ELSE LET cachedMetadata == dir[cachePath]
            IN <<Listing(mapCachedItems(originalItems.splashScreens,
                                        cachedMetadata.splashScreens),
                         mapCachedItems(originalItems.screenshots,
                                        cachedMetadata.screenshots))>>

\* the pairs written without looking at originalUrl
UrlMappingsFromUrl(items) ==
    [i \in 1..Len(items) |->
        [originalUrl |-> items[i].url, optimizedUrl |-> items[i].url]]

\* the {originalUrl, optimizedUrl} pairs saveCachedImages writes for a list
UrlMappings(items) ==
    [i \in 1..Len(items) |->
        [originalUrl |-> OrString(items[i].originalUrl, items[i].url),
         optimizedUrl |-> items[i].url]]

saveCachedImages(dir, metadataHash, cacheKey, optimizedItems) ==
    LET cachePath == getCacheFilePath(metadataHash, cacheKey)
        metadata == [splashScreens |-> UrlMappings(optimizedItems.splashScreens),
                     screenshots |-> UrlMappings(optimizedItems.screenshots)]
    IN [n \in DOMAIN dir \cup {cachePath} |->
          IF n = cachePath THEN metadata ELSE dir[n]]

\* the sweep with the .json test inverted: entry files are skipped
clearStaleCacheFilesSkipsJson(dir, currentHash) ==
    LET kept == {file \in DOMAIN dir :
                    \/ endsWith(file, ".json")
                    \/ startsWith(file, currentHash \o "-")}
    IN [n \in kept |-> dir[n]]

\* the files left after the sweep: a .json file stays only if its name
\* starts with "<currentHash>-"
clearStaleCacheFiles(dir, currentHash) ==
    LET kept == {file \in DOMAIN dir :
                    \/ ~endsWith(file, ".json")
                    \/ startsWith(file, currentHash \o "-")}
    IN [n \in kept |-> dir[n]]

invalidateImageCache(dir, splashScreens, screenshots) ==
    clearStaleCacheFiles(dir, generateMetadataHash(splashScreens, screenshots))

ensureImageCacheHash(dir, splashScreens, screenshots) ==
    invalidateImageCache(dir, splashScreens, screenshots)

(***************************************************************************)
(* EXIF metadata cache (metadata-cache.ts, hash-prefixed layout)           *)
(***************************************************************************)
generateImageUrlHash(imageUrl) == Sha256Hex(imageUrl)

\* the entry file named by the url hash alone, as in the earlier layout
getMetadataCacheFilePathOldLayout(metadataHash, imageUrlHash) ==
    imageUrlHash \o ".json"

getMetadataCacheFilePath(metadataHash, imageUrlHash) ==
    metadataHash \o "-" \o imageUrlHash \o ".json"

getCurrentMetadataHash(splashScreens, screenshots) ==
    generateMetadataHash(splashScreens, screenshots)

\* JSON.stringify of an ImageMetadataInfo: the members that are defined, in
\* property order; a scalar is written as <<text>>, sources as its list
MetadataMembers(info) ==
    SelectSeq(<<[key |-> "title", defined |-> info.title # <<>>, value |-> info.title],
                [key |-> "description", defined |-> info.description # <<>>,
                 value |-> info.description],
                [key |-> "author", defined |-> info.author # <<>>, value |-> info.author],
                [key |-> "sources", defined |-> info.sources # <<>>,
                 value |-> IF info.sources = <<>> THEN <<>> ELSE info.sources[1]]>>,
              LAMBDA member : member.defined)

\* JSON.parse of those members back into an ImageMetadataInfo
MemberValue(members, key) ==
    LET hits == {i \in 1..Len(members) : members[i].key = key}
    IN IF hits = {} THEN <<>> ELSE <<members[CHOOSE i \in hits : TRUE].value>>

ParseMetadata(members) ==
    LET scalar(key) == IF MemberValue(members, key) = <<>> THEN <<>>
                       ELSE MemberValue(members, key)[1]
    IN MetadataInfo(scalar("title"), scalar("description"), scalar("author"),
                    MemberValue(members, "sources"))

\* the CacheEntry wrapper as written to the file: metadata <<>> is null
CacheEntry(metadata) ==
    [metadata |-> IF metadata = <<>> THEN <<>> ELSE <<MetadataMembers(metadata[1])>>,
     cached |-> TRUE]

\* results of loadCachedMetadata: undefined, or a returned value that is
\* null (<<>>) or a record (<<info>>)
Undefined == [defined |-> FALSE, value |-> <<>>]

Returned(value) == [defined |-> TRUE, value |-> value]

hasCachedMetadata(dir, imageUrl, splashScreens, screenshots) ==
    LET currentHash == getCurrentMetadataHash(splashScreens, screenshots)
        imageUrlHash == generateImageUrlHash(imageUrl)
    IN getMetadataCacheFilePath(currentHash, imageUrlHash) \in DOMAIN dir

\* the load that treats a cached null as nothing cached
loadCachedMetadataFalsyNull(dir, imageUrl, splashScreens, screenshots) ==
    LET currentHash == getCurrentMetadataHash(splashScreens, screenshots)
        imageUrlHash == generateImageUrlHash(imageUrl)
        cachePath == getMetadataCacheFilePath(currentHash, imageUrlHash)
    IN IF cachePath \notin DOMAIN dir THEN Undefined
       ELSE LET cacheEntry == dir[cachePath]
            IN IF cacheEntry.metadata = <<>> THEN Undefined
               ELSE Returned(<<ParseMetadata(cacheEntry.metadata[1])>>)

loadCachedMetadata(dir, imageUrl, splashScreens, screenshots) ==
    LET currentHash == getCurrentMetadataHash(splashScreens, screenshots)
        imageUrlHash == generateImageUrlHash(imageUrl)
        cachePath == getMetadataCacheFilePath(currentHash, imageUrlHash)
    IN IF cachePath \notin DOMAIN dir THEN Undefined
       ELSE LET cacheEntry == dir[cachePath]
            IN IF cacheEntry.cached = TRUE
               THEN Returned(IF cacheEntry.metadata = <<>> THEN <<>>
                             ELSE <<ParseMetadata(cacheEntry.metadata[1])>>)
               ELSE \* legacy format: the parsed object itself is the metadata
                    Returned(<<ParseMetadata(cacheEntry.metadata[1])>>)

saveCachedMetadata(dir, imageUrl, metadata, splashScreens, screenshots) ==
    LET currentHash == getCurrentMetadataHash(splashScreens, screenshots)
        imageUrlHash == generateImageUrlHash(imageUrl)
        cachePath == getMetadataCacheFilePath(currentHash, imageUrlHash)
    IN [n \in DOMAIN dir \cup {cachePath} |->
          IF n = cachePath THEN CacheEntry(metadata) ELSE dir[n]]

\* the sweep of the earlier layout: every .json file goes
clearAllMetadataCacheFiles(dir, currentHash) ==
    LET kept == {file \in DOMAIN dir : ~endsWith(file, ".json")}
    IN [n \in kept |-> dir[n]]

\* metadata-cache.ts has its own copy of the sweep
clearStaleMetadataCacheFiles(dir, currentHash) ==
    LET kept == {file \in DOMAIN dir :
                    \/ ~endsWith(file, ".json")
                    \/ startsWith(file, currentHash \o "-")}
    IN [n \in kept |-> dir[n]]

invalidateMetadataCache(dir, splashScreens, screenshots) ==
    clearStaleMetadataCacheFiles(dir, getCurrentMetadataHash(splashScreens, screenshots))

ensureMetadataHash(dir, splashScreens, screenshots) ==
    invalidateMetadataCache(dir, splashScreens, screenshots)

\* files the earlier layout of the metadata cache left in the directory:
\* the stored hash and an entry named by the url hash alone
OldLayoutHashFile == "metadata-hash.txt"

OldLayoutEntryFile == generateImageUrlHash(UrlA) \o ".json"

OldLayoutDirs ==
    {EmptyDir,
     [n \in {OldLayoutHashFile, OldLayoutEntryFile} |->
        IF n = OldLayoutHashFile THEN [text |-> "0"] ELSE CacheEntry(<<TitleOnly>>)]}

(***************************************************************************)
(* Spec: calls of the two caches, one whole call per step                  *)
(***************************************************************************)
EntryFiles(dir) == {file \in DOMAIN dir : endsWith(file, ".json")}

EntryCount ==
    Cardinality(EntryFiles(imageCacheDir)) + Cardinality(EntryFiles(metadataCacheDir))

\* a write may create a file only while the directories hold fewer than MaxFiles
MayWrite(dir, file) == file \in DOMAIN dir \/ EntryCount < MaxFiles

WithEntry(history, key, value) ==
    [k \in DOMAIN history \cup {key} |-> IF k = key THEN value ELSE history[k]]

\* the saves a sweep for metadataHash leaves in force
SavesUnder(history, metadataHash) ==
    [k \in {q \in DOMAIN history : q[1] = metadataHash} |-> history[k]]

Init ==
    /\ imageCacheDir = EmptyDir
    /\ metadataCacheDir \in OldLayoutDirs
    /\ savedImages = EmptyDir
    /\ everSavedMetadata = {}
    /\ savedMetadata = EmptyDir
    /\ lastOp = NoOp
    /\ HashIdle
    /\ KeyIdle
    /\ PageIdle

\* what no cache operation touches
pureVars == <<hashArgs, hashResults, keyArgs, keyResults, pageVars, inFlight, disk, musicPlayer>>

metadataVars == <<metadataCacheDir, everSavedMetadata, savedMetadata>>

imageVars == <<imageCacheDir, savedImages>>

HasCachedImages(metadataHash, cacheKey) ==
    /\ lastOp' = [op |-> "hasCachedImages", metadataHash |-> metadataHash,
                  cacheKey |-> cacheKey, threw |-> FALSE,
                  result |-> hasCachedImages(imageCacheDir, metadataHash, cacheKey)]
    /\ UNCHANGED <<imageVars, metadataVars, pureVars>>

LoadCachedImages(metadataHash, cacheKey, originalItems) ==
    /\ lastOp' = [op |-> "loadCachedImages", metadataHash |-> metadataHash,
                  cacheKey |-> cacheKey, items |-> originalItems, threw |-> FALSE,
                  result |-> loadCachedImages(imageCacheDir, metadataHash, cacheKey,
                                              originalItems)]
    /\ UNCHANGED <<imageVars, metadataVars, pureVars>>

SaveCachedImages(metadataHash, options, listing, optimizedItems) ==
    LET cacheKey == getOptimizationCacheKey(options)
    IN /\ MayWrite(imageCacheDir, getCacheFilePath(metadataHash, cacheKey))
       /\ imageCacheDir' = saveCachedImages(imageCacheDir, metadataHash, cacheKey,
                                            optimizedItems)
       /\ savedImages' = WithEntry(savedImages, <<metadataHash, cacheKey>>, optimizedItems)
       /\ lastOp' = [op |-> "saveCachedImages", metadataHash |-> metadataHash,
                     cacheKey |-> cacheKey, listing |-> listing,
                     items |-> optimizedItems]
       /\ UNCHANGED <<metadataVars, pureVars>>

InvalidateImageCache(listing) ==
    /\ imageCacheDir' = invalidateImageCache(imageCacheDir, listing.splashScreens,
                                             listing.screenshots)
    /\ savedImages' = SavesUnder(savedImages, Fingerprint(listing))
    /\ lastOp' = [op |-> "invalidateImageCache", listing |-> listing,
                  metadataHash |-> Fingerprint(listing),
                  removed |-> DOMAIN imageCacheDir \ DOMAIN imageCacheDir']
    /\ UNCHANGED <<metadataVars, pureVars>>

EnsureImageCacheHash(listing) ==
    /\ imageCacheDir' = ensureImageCacheHash(imageCacheDir, listing.splashScreens,
                                             listing.screenshots)
    /\ savedImages' = SavesUnder(savedImages, Fingerprint(listing))
    /\ lastOp' = [op |-> "ensureImageCacheHash", listing |-> listing,
                  metadataHash |-> Fingerprint(listing),
                  removed |-> DOMAIN imageCacheDir \ DOMAIN imageCacheDir']
    /\ UNCHANGED <<metadataVars, pureVars>>

HasCachedMetadata(imageUrl, listing) ==
    /\ lastOp' = [op |-> "hasCachedMetadata", imageUrl |-> imageUrl,
                  listing |-> listing, metadataHash |-> Fingerprint(listing),
                  threw |-> FALSE,
                  result |-> hasCachedMetadata(metadataCacheDir, imageUrl,
                                               listing.splashScreens, listing.screenshots)]
    /\ UNCHANGED <<imageVars, metadataVars, pureVars>>

LoadCachedMetadata(imageUrl, listing) ==
    /\ lastOp' = [op |-> "loadCachedMetadata", imageUrl |-> imageUrl,
                  listing |-> listing, metadataHash |-> Fingerprint(listing),
                  threw |-> FALSE,
                  result |-> loadCachedMetadata(metadataCacheDir, imageUrl,
                                                listing.splashScreens, listing.screenshots)]
    /\ UNCHANGED <<imageVars, metadataVars, pureVars>>

SaveCachedMetadata(imageUrl, metadata, listing) ==
    LET metadataHash == Fingerprint(listing)
    IN /\ MayWrite(metadataCacheDir,
                   getMetadataCacheFilePath(metadataHash, generateImageUrlHash(imageUrl)))
       /\ metadataCacheDir' = saveCachedMetadata(metadataCacheDir, imageUrl, metadata,
                                                 listing.splashScreens, listing.screenshots)
       /\ everSavedMetadata' = everSavedMetadata \cup {<<metadataHash, imageUrl>>}
       /\ savedMetadata' = WithEntry(savedMetadata, <<metadataHash, imageUrl>>, metadata)
       /\ lastOp' = [op |-> "saveCachedMetadata", imageUrl |-> imageUrl,
                     listing |-> listing, metadataHash |-> metadataHash,
                     metadata |-> metadata]
       /\ UNCHANGED <<imageVars, pureVars>>

InvalidateMetadataCache(listing) ==
    /\ metadataCacheDir' = invalidateMetadataCache(metadataCacheDir, listing.splashScreens,
                                                   listing.screenshots)
    /\ savedMetadata' = SavesUnder(savedMetadata, Fingerprint(listing))
    /\ lastOp' = [op |-> "invalidateMetadataCache", listing |-> listing,
                  metadataHash |-> Fingerprint(listing),
                  removed |-> DOMAIN metadataCacheDir \ DOMAIN metadataCacheDir']
    /\ UNCHANGED <<imageVars, everSavedMetadata, pureVars>>

EnsureMetadataHash(listing) ==
    /\ metadataCacheDir' = ensureMetadataHash(metadataCacheDir, listing.splashScreens,
                                              listing.screenshots)
    /\ savedMetadata' = SavesUnder(savedMetadata, Fingerprint(listing))
    /\ lastOp' = [op |-> "ensureMetadataHash", listing |-> listing,
                  metadataHash |-> Fingerprint(listing),
                  removed |-> DOMAIN metadataCacheDir \ DOMAIN metadataCacheDir']
    /\ UNCHANGED <<imageVars, everSavedMetadata, pureVars>>

\* every result of optimizing the listing, or only the one without failures
AllSucceeded(listing, options) ==
    Listing([i \in 1..Len(listing.splashScreens) |->
                OptimizedItem(listing.splashScreens[i], options, TRUE)],
            [i \in 1..Len(listing.screenshots) |->
                OptimizedItem(listing.screenshots[i], options, TRUE)])

\* both caches side by side: a request saves what it optimized for its
\* listing and the metadata it extracted, asks whether entries exist, sweeps
Next ==
    \/ \E f \in Fingerprints, k \in CacheKeys : HasCachedImages(f, k)
    \/ \E o \in CacheOptions, l \in Listings :
          SaveCachedImages(Fingerprint(l), o, l, AllSucceeded(l, o))
    \/ \E l \in Listings : InvalidateImageCache(l)
    \/ \E u \in ImageUrls, l \in Listings : HasCachedMetadata(u, l)
    \/ \E u \in ImageUrls, m \in {<<>>, <<FullInfo>>}, l \in Listings :
          SaveCachedMetadata(u, m, l)
    \/ \E l \in Listings : InvalidateMetadataCache(l)

Spec == Init /\ [][Next]_vars

\* the image optimization cache alone, called with any fingerprint and any
\* outcome of the optimization
NextImageCache ==
    \/ \E f \in Fingerprints, k \in CacheKeys : HasCachedImages(f, k)
    \/ \E f \in Fingerprints, k \in CacheKeys, l \in Listings : LoadCachedImages(f, k, l)
    \/ \E f \in Fingerprints, o \in CacheOptions, l \in Listings :
          \E items \in OptimizedListings(l, o) : SaveCachedImages(f, o, l, items)
    \/ \E l \in Listings : InvalidateImageCache(l)
    \/ \E l \in Listings : EnsureImageCacheHash(l)

InitImageCache == Init /\ metadataCacheDir = EmptyDir

SpecImageCache == InitImageCache /\ [][NextImageCache]_vars

\* the metadata cache alone
NextMetadataCache ==
    \/ \E u \in ImageUrls, l \in Listings : HasCachedMetadata(u, l)
    \/ \E u \in ImageUrls, l \in Listings : LoadCachedMetadata(u, l)
    \/ \E u \in ImageUrls, m \in MetadataValues, l \in Listings :
          SaveCachedMetadata(u, m, l)
    \/ \E l \in Listings : InvalidateMetadataCache(l)
    \/ \E l \in Listings : EnsureMetadataHash(l)

SpecMetadataCache == Init /\ [][NextMetadataCache]_vars

(***************************************************************************)
(* Properties                                                              *)
(***************************************************************************)
Categories == {"splashScreens", "screenshots"}

ImageSweeps == {"invalidateImageCache", "ensureImageCacheHash"}

MetadataSweeps == {"invalidateMetadataCache", "ensureMetadataHash"}

\* C1: when loadCachedImages(F, K, items) returns non-null and rewrites the
\* url of an item, the new url is the optimized url that the save in force
\* under exactly (F, K) recorded for that original url; nothing saved under
\* another fingerprint or another options key is returned.
C1_LoadedUrlsComeFromSameKey ==
    (lastOp.op = "loadCachedImages" /\ lastOp.result # <<>>) =>
        \A cat \in Categories : \A i \in 1..Len(lastOp.items[cat]) :
            lastOp.result[1][cat][i].url # lastOp.items[cat][i].url =>
                /\ <<lastOp.metadataHash, lastOp.cacheKey>> \in DOMAIN savedImages
                /\ LET saved == savedImages[<<lastOp.metadataHash, lastOp.cacheKey>>][cat]
                   IN \E j \in 1..Len(saved) :
                         /\ saved[j].originalUrl = <<lastOp.items[cat][i].url>>
                         /\ saved[j].url = lastOp.result[1][cat][i].url

\* a load rewrote a url while an entry saved under another key is in force
C1_Witness ==
    /\ lastOp.op = "loadCachedImages"
    /\ lastOp.result # <<>>
    /\ \E cat \in Categories : \E i \in 1..Len(lastOp.items[cat]) :
          lastOp.result[1][cat][i].url # lastOp.items[cat][i].url
    /\ \E q \in DOMAIN savedImages : q # <<lastOp.metadataHash, lastOp.cacheKey>>

\* what loading the listing of the last save returns now
LoadedAfterSave ==
    loadCachedImages(imageCacheDir, lastOp.metadataHash, lastOp.cacheKey, lastOp.listing)

\* C2 as stated: after saveCachedImages(F, K, optimizedItems), where every
\* optimized item carries the url of its original item as originalUrl,
\* hasCachedImages(F, K) is true and loadCachedImages(F, K, originalItems)
\* returns for each original item its own saved optimized url, with
\* originalUrl equal to the url of the original item.
C2_LoadReturnsEachSavedUrl ==
    lastOp.op = "saveCachedImages" =>
        /\ hasCachedImages(imageCacheDir, lastOp.metadataHash, lastOp.cacheKey)
        /\ LoadedAfterSave # <<>>
        /\ \A cat \in Categories : \A i \in 1..Len(lastOp.listing[cat]) :
              /\ LoadedAfterSave[1][cat][i].url = lastOp.items[cat][i].url
              /\ LoadedAfterSave[1][cat][i].originalUrl = <<lastOp.listing[cat][i].url>>

\* the first item of the list that has the same url as item i
FirstWithUrl(items, i) ==
    CHOOSE j \in 1..i :
        /\ items[j].url = items[i].url
        /\ \A k \in 1..(j - 1) : items[k].url # items[i].url

\* C2 amended: after the save, hasCachedImages(F, K) is true and the load
\* returns for each original item the optimized url saved for the first item
\* of its category with the same original url (its own when the urls of the
\* category are distinct), with originalUrl equal to the url of the original.
C2_LoadReturnsFirstSavedUrl ==
    lastOp.op = "saveCachedImages" =>
        /\ hasCachedImages(imageCacheDir, lastOp.metadataHash, lastOp.cacheKey)
        /\ LoadedAfterSave # <<>>
        /\ \A cat \in Categories :
              /\ Len(LoadedAfterSave[1][cat]) = Len(lastOp.listing[cat])
              /\ \A i \in 1..Len(lastOp.listing[cat]) :
                    /\ LoadedAfterSave[1][cat][i].url =
                          lastOp.items[cat][FirstWithUrl(lastOp.listing[cat], i)].url
                    /\ LoadedAfterSave[1][cat][i].originalUrl =
                          <<lastOp.listing[cat][i].url>>

\* a save of a listing that links one file twice, optimized with two outcomes
C2_Witness ==
    /\ lastOp.op = "saveCachedImages"
    /\ \E i, j \in 1..Len(lastOp.listing.splashScreens) :
          /\ i < j
          /\ lastOp.listing.splashScreens[i].url = lastOp.listing.splashScreens[j].url
          /\ lastOp.items.splashScreens[i].url # lastOp.items.splashScreens[j].url

\* C3: for a key (F, K) with no save in force (never saved, or swept since),
\* hasCachedImages returns false and loadCachedImages returns null, and
\* neither call throws.
C3_UnsavedKeyIsAMiss ==
    /\ (lastOp.op = "hasCachedImages"
        /\ <<lastOp.metadataHash, lastOp.cacheKey>> \notin DOMAIN savedImages)
          => (lastOp.result = FALSE /\ lastOp.threw = FALSE)
    /\ (lastOp.op = "loadCachedImages"
        /\ <<lastOp.metadataHash, lastOp.cacheKey>> \notin DOMAIN savedImages)
          => (lastOp.result = <<>> /\ lastOp.threw = FALSE)

\* a load under a key never saved, while other entries are stored
C3_Witness ==
    /\ lastOp.op = "loadCachedImages"
    /\ <<lastOp.metadataHash, lastOp.cacheKey>> \notin DOMAIN savedImages
    /\ DOMAIN imageCacheDir # {}

\* C4: after the stale sweep for fingerprint F the swept directory holds no
\* .json file whose name does not start with "F-", and hasCached is false
\* for every entry of another fingerprint.
C4_SweepLeavesOnlyCurrentEntries ==
    /\ lastOp.op \in ImageSweeps =>
          /\ \A file \in DOMAIN imageCacheDir :
                endsWith(file, ".json") => startsWith(file, lastOp.metadataHash \o "-")
          /\ \A f \in Fingerprints \ {lastOp.metadataHash}, k \in CacheKeys :
                ~hasCachedImages(imageCacheDir, f, k)
    /\ lastOp.op \in MetadataSweeps =>
          /\ \A file \in DOMAIN metadataCacheDir :
                endsWith(file, ".json") => startsWith(file, lastOp.metadataHash \o "-")
          /\ \A l \in Listings, u \in ImageUrls :
                Fingerprint(l) # lastOp.metadataHash =>
                    ~hasCachedMetadata(metadataCacheDir, u, l.splashScreens, l.screenshots)

\* a sweep of the image cache that removed an entry of another fingerprint
C4_Witness ==
    /\ lastOp.op \in ImageSweeps
    /\ \E f \in Fingerprints \ {lastOp.metadataHash}, k \in CacheKeys :
          getCacheFilePath(f, k) \in lastOp.removed

\* C5: the stale sweep for fingerprint F leaves every file that is not a
\* .json file and every entry file prefixed by F as it was: an entry saved
\* under F is still reported by hasCached and loaded unchanged.
C5_SweepKeepsCurrentEntries ==
    [][/\ lastOp'.op \in ImageSweeps =>
            /\ \A file \in DOMAIN imageCacheDir :
                  (~endsWith(file, ".json")
                   \/ startsWith(file, lastOp'.metadataHash \o "-")) =>
                      /\ file \in DOMAIN imageCacheDir'
                      /\ imageCacheDir'[file] = imageCacheDir[file]
            /\ \A k \in CacheKeys, l \in Listings :
                  hasCachedImages(imageCacheDir, lastOp'.metadataHash, k) =>
                      /\ hasCachedImages(imageCacheDir', lastOp'.metadataHash, k)
                      /\ loadCachedImages(imageCacheDir', lastOp'.metadataHash, k, l)
                           = loadCachedImages(imageCacheDir, lastOp'.metadataHash, k, l)
       /\ lastOp'.op \in MetadataSweeps =>
            /\ \A file \in DOMAIN metadataCacheDir :
                  (~endsWith(file, ".json")
                   \/ startsWith(file, lastOp'.metadataHash \o "-")) =>
                      /\ file \in DOMAIN metadataCacheDir'
                      /\ metadataCacheDir'[file] = metadataCacheDir[file]
            /\ \A u \in ImageUrls :
                  LET s == lastOp'.listing.splashScreens
                      c == lastOp'.listing.screenshots
                  IN hasCachedMetadata(metadataCacheDir, u, s, c) =>
                        /\ hasCachedMetadata(metadataCacheDir', u, s, c)
                        /\ loadCachedMetadata(metadataCacheDir', u, s, c)
                             = loadCachedMetadata(metadataCacheDir, u, s, c)]_vars

\* a metadata sweep that removed a stale file and kept an entry of its own
\* fingerprint and the stored-hash file
C5_Witness ==
    /\ lastOp.op \in MetadataSweeps
    /\ lastOp.removed # {}
    /\ OldLayoutHashFile \in DOMAIN metadataCacheDir
    /\ \E u \in ImageUrls :
          hasCachedMetadata(metadataCacheDir, u, lastOp.listing.splashScreens,
                            lastOp.listing.screenshots)

\* C6 as stated: loadCachedMetadata(url, S, C) returns undefined if and only
\* if no entry has been saved for (fingerprint(S, C), url); while a save is
\* in force it returns what was saved, null for null and an equal record for
\* a record.
C6_UndefinedIffNeverSaved ==
    lastOp.op = "loadCachedMetadata" =>
        LET key == <<lastOp.metadataHash, lastOp.imageUrl>>
        IN /\ (lastOp.result = Undefined) <=> (key \notin everSavedMetadata)
           /\ key \in DOMAIN savedMetadata =>
                 lastOp.result = Returned(savedMetadata[key])

\* C6 amended: loadCachedMetadata(url, S, C) returns undefined if and only
\* if no save for (fingerprint(S, C), url) is in force, that is none was made
\* or the entry was removed by a later sweep for another fingerprint;
\* otherwise it returns what the latest save stored, null for null and an
\* equal record for a record.
C6_UndefinedIffNoSaveInForce ==
    lastOp.op = "loadCachedMetadata" =>
        LET key == <<lastOp.metadataHash, lastOp.imageUrl>>
        IN /\ (lastOp.result = Undefined) <=> (key \notin DOMAIN savedMetadata)
           /\ key \in DOMAIN savedMetadata =>
                 lastOp.result = Returned(savedMetadata[key])

\* a load that returned the null saved for its key
C6_Witness ==
    /\ lastOp.op = "loadCachedMetadata"
    /\ <<lastOp.metadataHash, lastOp.imageUrl>> \in DOMAIN savedMetadata
    /\ savedMetadata[<<lastOp.metadataHash, lastOp.imageUrl>>] = <<>>
    /\ lastOp.result = Returned(<<>>)

\* C7: for a url never saved under the fingerprint of (S', C'),
\* hasCachedMetadata(url, S', C') is false and loadCachedMetadata(url, S', C')
\* is undefined, whatever was saved for the url under other fingerprints.
C7_EntriesAreFingerprintScoped ==
    /\ (lastOp.op = "hasCachedMetadata"
        /\ <<lastOp.metadataHash, lastOp.imageUrl>> \notin everSavedMetadata)
          => lastOp.result = FALSE
    /\ (lastOp.op = "loadCachedMetadata"
        /\ <<lastOp.metadataHash, lastOp.imageUrl>> \notin everSavedMetadata)
          => lastOp.result = Undefined

\* a check for a url that is stored under another fingerprint only
C7_Witness ==
    /\ lastOp.op = "hasCachedMetadata"
    /\ <<lastOp.metadataHash, lastOp.imageUrl>> \notin everSavedMetadata
    /\ \E f \in Fingerprints :
          /\ f # lastOp.metadataHash
          /\ <<f, lastOp.imageUrl>> \in DOMAIN savedMetadata
          /\ getMetadataCacheFilePath(f, generateImageUrlHash(lastOp.imageUrl))
                \in DOMAIN metadataCacheDir

\* C8: generateMetadataHash is order-independent: two listings whose splash
\* lists are permutations of each other and whose screenshot lists are
\* permutations of each other, items sharing a url included, get the same
\* fingerprint.
C8_HashIsOrderIndependent ==
    (/\ hashResults # <<>>
     /\ IsPermutation(hashArgs[1].splashScreens, hashArgs[2].splashScreens)
     /\ IsPermutation(hashArgs[1].screenshots, hashArgs[2].screenshots))
        => hashResults[1] = hashResults[2]

ProjectedSet(items) == {Project(items[i]) : i \in 1..Len(items)}

EqualAsSets(a, b) ==
    /\ ProjectedSet(a.splashScreens) = ProjectedSet(b.splashScreens)
    /\ ProjectedSet(a.screenshots) = ProjectedSet(b.screenshots)

\* C9: with a collision-free digest, two listings get the same fingerprint
\* if and only if their splash lists are equal as sets of (url, name, size,
\* lastModified) and so are their screenshot lists.
C9_HashEqualIffEqualAsSets ==
    hashResults # <<>> =>
        ((hashResults[1] = hashResults[2]) <=> EqualAsSets(hashArgs[1], hashArgs[2]))

\* each missing field filled with width 600, quality 80, format webp
DefaultFilled(options) ==
    [width |-> IF options.width = <<>> THEN <<600>> ELSE options.width,
     quality |-> IF options.quality = <<>> THEN <<80>> ELSE options.quality,
     format |-> IF options.format = <<>> THEN <<"webp">> ELSE options.format]

\* each missing or zero width and quality and each missing format replaced
\* by its default
EffectiveOptions(options) ==
    [width |-> IF options.width \in {<<>>, <<0>>} THEN <<600>> ELSE options.width,
     quality |-> IF options.quality \in {<<>>, <<0>>} THEN <<80>> ELSE options.quality,
     format |-> IF options.format = <<>> THEN <<"webp">> ELSE options.format]

\* C10 as stated: the key of an options record equals the key of the record
\* with each missing field filled by its default, and two records whose
\* default-filled (width, quality, format) differ get different keys.
C10_KeyFollowsDefaultFilled ==
    keyResults # <<>> =>
        /\ keyResults[1] = getOptimizationCacheKey(DefaultFilled(keyArgs[1]))
        /\ DefaultFilled(keyArgs[1]) # DefaultFilled(keyArgs[2])
              => keyResults[1] # keyResults[2]

\* C10 amended: the key of an options record equals the key of the record
\* with each missing field filled by its default, and two records get
\* different keys exactly when they differ after each missing or zero width
\* and quality and each missing format is replaced by its default.
C10_KeyFollowsEffectiveOptions ==
    keyResults # <<>> =>
        /\ keyResults[1] = getOptimizationCacheKey(DefaultFilled(keyArgs[1]))
        /\ (EffectiveOptions(keyArgs[1]) # EffectiveOptions(keyArgs[2]))
              <=> (keyResults[1] # keyResults[2])

\* the keys of {} and of {width: 0} computed and found equal
C10_Witness ==
    /\ keyResults # <<>>
    /\ keyArgs[1] = NoOptions
    /\ keyArgs[2] = [NoOptions EXCEPT !.width = <<0>>]
    /\ keyResults[1] = keyResults[2]

(***************************************************************************)
(* media-fetcher.ts: glob patterns                                         *)
(***************************************************************************)
CharAt(str, i) == SubSeq(str, i, i)

\* the rest of a string from position i on
From(str, i) == SubSeq(str, i, Len(str))

\* String.prototype.includes for a one-character needle
includes(str, ch) == \E i \in 1..Len(str) : CharAt(str, i) = ch

\* the letters of the names and patterns used, upper case to lower case
LowerCase ==
    [c \in {"A", "B", "D", "E", "G", "M", "N", "P", "R"} |->
        CASE c = "A" -> "a" [] c = "B" -> "b" [] c = "D" -> "d" [] c = "E" -> "e"
          [] c = "G" -> "g" [] c = "M" -> "m" [] c = "N" -> "n" [] c = "P" -> "p"
          [] c = "R" -> "r"]

\* canonicalization of one character under the i flag
Canonical(ch) == IF ch \in DOMAIN LowerCase THEN LowerCase[ch] ELSE ch

RECURSIVE toLowerCase(_)
toLowerCase(str) ==
    IF str = "" THEN "" ELSE Canonical(CharAt(str, 1)) \o toLowerCase(From(str, 2))

\* white space and line terminators removed by String.prototype.trim
WhiteSpace == {" ", "\n", "\t", "\r"}

\* the characters a regular-expression dot does not match
LineTerminators == {"\n", "\r"}

RECURSIVE trimStart(_)
trimStart(str) ==
    IF str # "" /\ CharAt(str, 1) \in WhiteSpace THEN trimStart(From(str, 2)) ELSE str

RECURSIVE trimEnd(_)
trimEnd(str) ==
    IF str # "" /\ CharAt(str, Len(str)) \in WhiteSpace
    THEN trimEnd(SubSeq(str, 1, Len(str) - 1)) ELSE str

trim(str) == trimEnd(trimStart(str))

\* the class [.+^${}()|[\]\\] of line 44
RegexSpecials == {".", "+", "^", "$", "{", "}", "(", ")", "|", "[", "]", "\\"}

\* .replace(/[.+^${}()|[\]\\]/g, "\\$&")
RECURSIVE EscapeSpecials(_)
EscapeSpecials(str) ==
    IF str = "" THEN ""
    ELSE (IF CharAt(str, 1) \in RegexSpecials THEN "\\" \o CharAt(str, 1)
          ELSE CharAt(str, 1)) \o EscapeSpecials(From(str, 2))

\* .replace(/x/g, by) for a one-character x
RECURSIVE ReplaceChar(_, _, _)
ReplaceChar(str, ch, by) ==
    IF str = "" THEN ""
    ELSE (IF CharAt(str, 1) = ch THEN by ELSE CharAt(str, 1))
         \o ReplaceChar(From(str, 2), ch, by)

\* the source of the regular expression between ^ and $; the flag is i
patternToRegex(pattern) ==
    ReplaceChar(ReplaceChar(EscapeSpecials(pattern), "*", ".*"), "?", ".")

\* whether the expression source re, anchored at both ends, matches str:
\* \c is the character c, .* a run of non-terminators, . one non-terminator,
\* any other character itself, letters compared without case
RECURSIVE RegexMatches(_, _)
RegexMatches(re, str) ==
    IF re = "" THEN str = ""
    ELSE IF CharAt(re, 1) = "\\" THEN
        /\ str # ""
        /\ Canonical(CharAt(str, 1)) = Canonical(CharAt(re, 2))
        /\ RegexMatches(From(re, 3), From(str, 2))
    ELSE IF CharAt(re, 1) = "." /\ Len(re) >= 2 /\ CharAt(re, 2) = "*" THEN
        \/ RegexMatches(From(re, 3), str)
        \/ /\ str # ""
           /\ CharAt(str, 1) \notin LineTerminators
           /\ RegexMatches(re, From(str, 2))
    ELSE IF CharAt(re, 1) = "." THEN
        /\ str # ""
        /\ CharAt(str, 1) \notin LineTerminators
        /\ RegexMatches(From(re, 2), From(str, 2))
    ELSE
        /\ str # ""
        /\ Canonical(CharAt(str, 1)) = Canonical(CharAt(re, 1))
        /\ RegexMatches(From(re, 2), From(str, 2))

\* matchesPattern, lines 54-63
matchesPattern(filename, patterns) ==
    IF Len(patterns) = 0 THEN TRUE
    ELSE \E i \in 1..Len(patterns) :
            RegexMatches(patternToRegex(trim(patterns[i])), filename)

(***************************************************************************)
(* media-fetcher.ts: parsing a directory listing                           *)
(***************************************************************************)
\* isDirectory, lines 69-71
isDirectory(href) == href = "../" \/ href = "/" \/ endsWith(href, "/")

\* IMAGE_EXT_REGEX, line 9
ImageExtensions == {".jpg", ".jpeg", ".png", ".gif", ".webp", ".svg"}

\* isImageFile, lines 73-77: the href ends in an image extension or the link
\* text holds a dot
isImageFile(href, filename) ==
    LET hasImageExt == \E ext \in ImageExtensions : endsWith(toLowerCase(href), ext)
        hasExtension == includes(filename, ".")
    IN hasImageExt \/ hasExtension

DigitValue ==
    [d \in {"0", "1", "2", "3", "4", "5", "6", "7", "8", "9"} |->
        CASE d = "0" -> 0 [] d = "1" -> 1 [] d = "2" -> 2 [] d = "3" -> 3
          [] d = "4" -> 4 [] d = "5" -> 5 [] d = "6" -> 6 [] d = "7" -> 7
          [] d = "8" -> 8 [] d = "9" -> 9]

\* Number.parseInt(str, 10): the value of the leading digits, <<>> for NaN
RECURSIVE LeadingDigits(_, _)
LeadingDigits(str, acc) ==
    IF str # "" /\ CharAt(str, 1) \in DOMAIN DigitValue
    THEN LeadingDigits(From(str, 2), 10 * acc + DigitValue[CharAt(str, 1)])
    ELSE acc

parseInt(str) ==
    IF str # "" /\ CharAt(str, 1) \in DOMAIN DigitValue
    THEN <<LeadingDigits(str, 0)>> ELSE <<>>

\* parseSize, lines 79-89; sizeStr is <<>> when the group did not take part
parseSize(sizeStr) ==
    IF sizeStr = <<>> \/ sizeStr = <<"">> THEN <<>>
    ELSE parseInt(ReplaceChar(sizeStr[1], ",", ""))

\* .replace(FILE_EXT_REGEX, ""): the last dot and what follows go when what
\* follows is not empty and holds no slash
stripExtension(str) ==
    LET dots == {i \in 1..Len(str) : CharAt(str, i) = "."}
    IN IF dots = {} THEN str
       ELSE LET last == CHOOSE i \in dots : \A j \in dots : j <= i
            IN IF last < Len(str) /\ ~includes(From(str, last + 1), "/")
               THEN SubSeq(str, 1, last - 1) ELSE str

\* .replace(/%20/g, " ")
RECURSIVE replacePercent20(_)
replacePercent20(str) ==
    IF str = "" THEN ""
    ELSE IF Len(str) >= 3 /\ SubSeq(str, 1, 3) = "%20"
         THEN " " \o replacePercent20(From(str, 4))
         ELSE CharAt(str, 1) \o replacePercent20(From(str, 2))

\* .replace(REPLACE_UNDERSCORE_REGEX, " ")
replaceUnderscores(str) == ReplaceChar(ReplaceChar(str, "_", " "), "-", " ")

\* createAltText, lines 91-97
createAltText(decodedHref) ==
    trim(replacePercent20(replaceUnderscores(stripExtension(decodedHref))))

\* the escape sequences of the hrefs used and what they decode to
PercentEscapes ==
    [e \in {"%20", "%0A", "%25"} |->
        CASE e = "%20" -> " " [] e = "%0A" -> "\n" [] e = "%25" -> "%"]

\* decodeURIComponent throws URIError on a % that starts no escape sequence
RECURSIVE isWellEncoded(_)
isWellEncoded(str) ==
    IF str = "" THEN TRUE
    ELSE IF CharAt(str, 1) = "%"
         THEN /\ Len(str) >= 3
              /\ SubSeq(str, 1, 3) \in DOMAIN PercentEscapes
              /\ isWellEncoded(From(str, 4))
         ELSE isWellEncoded(From(str, 2))

RECURSIVE decodeURIComponent(_)
decodeURIComponent(str) ==
    IF str = "" THEN ""
    ELSE IF CharAt(str, 1) = "%"
         THEN PercentEscapes[SubSeq(str, 1, 3)] \o decodeURIComponent(From(str, 4))
         ELSE CharAt(str, 1) \o decodeURIComponent(From(str, 2))

\* the listing address of the model; it ends in a slash, so a relative
\* reference resolves inside it
BaseUrl == "https://cdn/"

\* the path percent-encoding of the URL parser for the characters used
RECURSIVE encodePath(_)
encodePath(str) ==
    IF str = "" THEN ""
    ELSE (IF CharAt(str, 1) = " " THEN "%20"
          ELSE IF CharAt(str, 1) \in {"\n", "\t", "\r"} THEN ""
          ELSE CharAt(str, 1)) \o encodePath(From(str, 2))

\* new URL(reference, baseUrl).href for a relative reference without dot-dot
\* segments: surrounding spaces and every tab and newline are dropped, a
\* leading ./ is resolved away, a space in the path is percent-encoded
resolveUrl(reference, baseUrl) ==
    LET stripped == trim(reference)
        relative == IF startsWith(stripped, "./") THEN From(stripped, 3) ELSE stripped
    IN baseUrl \o encodePath(relative)

\* an anchor of the listing: the double-quoted href, the link text, the
\* date and size that follow it, and whether the anchor has the plain form
\* <a href="...">text</a> that LINK_REGEX recognises
Anchor(href, text, date, size, plain) ==
    [href |-> href, text |-> text, date |-> date, size |-> size, plain |-> plain]

\* JavaScript's ||: an empty string is falsy
OrEmpty(opt) == IF opt = <<>> THEN "" ELSE opt[1]

\* match[n]?.trim() on a group that may not have taken part
trimGroup(opt) == IF opt = <<>> THEN <<>> ELSE <<trim(opt[1])>>

\* parseMatchToItem, lines 99-128, for a link that passes both tests and
\* decodes: the item built from it
matchedItem(currentMatch, baseUrl) ==
    LET decodedHref == decodeURIComponent(currentMatch.href)
        dateStr == trimGroup(currentMatch.date)
        sizeStr == trimGroup(currentMatch.size)
    IN [url |-> resolveUrl(decodedHref, baseUrl), name |-> decodedHref,
        alt |-> createAltText(decodedHref), size |-> parseSize(sizeStr),
        lastModified |-> dateStr, originalUrl |-> <<>>]

\* parseMatchToItem: <<>> is null; the call throws when the href of a link
\* that passed both tests does not decode
parseMatchToItem(currentMatch, baseUrl) ==
    LET href == currentMatch.href
        filename == OrEmpty(trimGroup(<<currentMatch.text>>))
    IN IF isDirectory(href) \/ ~isImageFile(href, filename)
       THEN [threw |-> FALSE, item |-> <<>>]
       ELSE IF ~isWellEncoded(href) THEN [threw |-> TRUE, item |-> <<>>]
       ELSE [threw |-> FALSE, item |-> <<matchedItem(currentMatch, baseUrl)>>]

\* parseWithDOM, lines 130-160, over every anchor of the document: the items,
\* or a throw when an href that is kept does not decode
domItem(link, baseUrl) ==
    LET decodedHref == decodeURIComponent(link.href)
    IN [url |-> resolveUrl(decodedHref, baseUrl), name |-> decodedHref,
        alt |-> replaceUnderscores(stripExtension(decodedHref)), size |-> <<>>,
        lastModified |-> <<>>, originalUrl |-> <<>>]

RECURSIVE parseWithDOM(_, _)
parseWithDOM(links, baseUrl) ==
    IF links = <<>> THEN [threw |-> FALSE, items |-> <<>>]
    ELSE LET before == parseWithDOM(Front(links), baseUrl)
             link == Last(links)
         IN IF before.threw THEN before
            ELSE IF link.href = "" \/ isDirectory(link.href) THEN before
            ELSE IF ~isWellEncoded(link.href) THEN [threw |-> TRUE, items |-> <<>>]
            ELSE [threw |-> FALSE, items |-> Append(before.items, domItem(link, baseUrl))]

\* the loop of lines 175-180 over the matches of LINK_REGEX
RECURSIVE parseMatches(_, _)
parseMatches(matches, baseUrl) ==
    IF matches = <<>> THEN [threw |-> FALSE, items |-> <<>>]
    ELSE LET before == parseMatches(Front(matches), baseUrl)
             parsed == parseMatchToItem(Last(matches), baseUrl)
         IN IF before.threw THEN before
            ELSE IF parsed.threw THEN [threw |-> TRUE, items |-> <<>>]
            ELSE [threw |-> FALSE, items |-> before.items \o parsed.item]

\* parseDirectoryListing, lines 162-189; html is the sequence of anchors of
\* the document, hasDOMParser whether the runtime defines DOMParser
parseDirectoryListing(html, baseUrl, hasDOMParser) ==
    LET matches == SelectSeq(html, LAMBDA link : link.plain)
        parsed == parseMatches(matches, baseUrl)
    IN IF parsed.threw \/ Len(parsed.items) # 0 THEN parsed
       ELSE IF ~hasDOMParser THEN [threw |-> FALSE, items |-> <<>>]
       ELSE parseWithDOM(html, baseUrl)

(***************************************************************************)
(* media-fetcher.ts: sorting and truncating                                *)
(***************************************************************************)
\* new Date(str).getTime() for the dates of the listings used, in minutes;
\* any other string is an invalid date, whose time is NaN
Timestamps ==
    [d \in {"12-Jan-2024 10:30", "01-Jan-2023 09:00",
            "2024-01-12T10:30:00.000Z", "2023-01-01T09:00:00.000Z"} |->
        IF d \in {"12-Jan-2024 10:30", "2024-01-12T10:30:00.000Z"}
        THEN 28417110 ELSE 27874140]

\* the comparator with the two times subtracted the other way round
compareItemsOldestFirst(a, b) ==
    IF a.lastModified \notin {<<>>, <<"">>} /\ b.lastModified \notin {<<>>, <<"">>}
    THEN IF a.lastModified[1] \in DOMAIN Timestamps
            /\ b.lastModified[1] \in DOMAIN Timestamps
         THEN Timestamps[a.lastModified[1]] - Timestamps[b.lastModified[1]]
         ELSE 0
    ELSE localeCompare(a.name, b.name)

\* the comparator of lines 221-229; a NaN result counts as +0
compareItems(a, b) ==
    IF a.lastModified \notin {<<>>, <<"">>} /\ b.lastModified \notin {<<>>, <<"">>}
    THEN IF a.lastModified[1] \in DOMAIN Timestamps
            /\ b.lastModified[1] \in DOMAIN Timestamps
         THEN Timestamps[b.lastModified[1]] - Timestamps[a.lastModified[1]]
         ELSE 0
    ELSE localeCompare(a.name, b.name)

RECURSIVE insertByComparator(_, _)
insertByComparator(sorted, x) ==
    IF sorted = <<>> THEN <<x>>
    ELSE IF compareItems(Last(sorted), x) <= 0 THEN Append(sorted, x)
    ELSE Append(insertByComparator(Front(sorted), x), Last(sorted))

\* the stable sort of the items under the comparator
RECURSIVE stableSort(_)
stableSort(items) ==
    IF items = <<>> THEN <<>>
    ELSE insertByComparator(stableSort(Front(items)), Last(items))

\* whether the comparator is a consistent comparator for the items, as
\* Array.prototype.sort requires for a defined order
isConsistentComparator(items) ==
    \A a, b, c \in Range(items) :
        /\ (compareItems(a, b) < 0) <=> (compareItems(b, a) > 0)
        /\ (compareItems(a, b) = 0) <=> (compareItems(b, a) = 0)
        /\ (compareItems(a, b) <= 0 /\ compareItems(b, c) <= 0)
              => compareItems(a, c) <= 0

Orderings(items) ==
    {p \in [1..Len(items) -> Range(items)] : IsPermutation(p, items)}

\* the orders Array.prototype.sort may leave: the stable sorted order, or an
\* implementation-defined order when the comparator is not consistent
sortOutcomes(items) ==
    IF isConsistentComparator(items) THEN {stableSort(items)}
    ELSE Orderings(items)

\* sorted.slice(0, end) for a whole number: a negative end counts from the
\* end of the array
slice(items, end) ==
    LET final == IF end < 0 THEN (IF Len(items) + end > 0 THEN Len(items) + end ELSE 0)
                 ELSE (IF end < Len(items) THEN end ELSE Len(items))
    IN SubSeq(items, 1, final)

\* the truncation without the test for a positive maxImages
truncateAnyNumber(sorted, maxImages) ==
    IF maxImages # <<>> /\ maxImages[1] # 0
    THEN slice(sorted, maxImages[1]) ELSE sorted

\* line 231 and line 353; maxImages is <<>> when absent
truncate(sorted, maxImages) ==
    IF maxImages # <<>> /\ maxImages[1] # 0 /\ maxImages[1] > 0
    THEN slice(sorted, maxImages[1]) ELSE sorted

(***************************************************************************)
(* fetchImagesFromUrl                                                      *)
(***************************************************************************)
\* a response to the GET: a network failure, or a status with a body
NetworkFailure == [kind |-> "network"]

Response(status, html) == [kind |-> "response", status |-> status, html |-> html]

\* every response taken for a success
okWhateverStatus(response) == TRUE

\* response.ok
ok(response) == response.status >= 200 /\ response.status <= 299

Get(url) == [io |-> "GET", target |-> url]

Rejected(requests) == [threw |-> TRUE, items |-> <<>>, requests |-> requests]

Resolved(items, requests) == [threw |-> FALSE, items |-> items, requests |-> requests]

\* the filter left out: every parsed item passes
filterByPatternsKeepsAll(allItems, patterns) == allItems

\* allItems.filter(...) of lines 216-218
filterByPatterns(allItems, patterns) ==
    SelectSeq(allItems, LAMBDA item : matchesPattern(item.name, patterns))

\* fetchImagesFromUrl, lines 194-236: every outcome the call may have when
\* the GET is answered by response
fetchImagesFromUrl(baseUrl, patterns, maxImages, response, hasDOMParser) ==
    LET requests == <<Get(baseUrl)>>
    IN IF response.kind = "network" THEN {Rejected(requests)}
       ELSE IF ~ok(response) THEN {Rejected(requests)}
       ELSE LET parsed == parseDirectoryListing(response.html, baseUrl, hasDOMParser)
            IN IF parsed.threw THEN {Rejected(requests)}
               ELSE {Resolved(truncate(sorted, maxImages), requests) :
                        sorted \in sortOutcomes(filterByPatterns(parsed.items, patterns))}

(***************************************************************************)
(* fetchImagesFromFolder                                                   *)
(***************************************************************************)
\* createImageUrlPath, lines 262-271
createImageUrlPath(folderPath, fileName) ==
    IF startsWith(folderPath, "/") THEN folderPath \o "/" \o fileName
    ELSE LET noDotPublic == IF startsWith(folderPath, "./public/")
                            THEN From(folderPath, 10) ELSE folderPath
             cleanedPath == IF startsWith(noDotPublic, "public/")
                            THEN From(noDotPublic, 8) ELSE noDotPublic
         IN "/" \o cleanedPath \o "/" \o fileName

\* processFile, lines 276-296: <<>> is null
processFile(file, folderPath, patterns) ==
    IF ~matchesPattern(file, patterns) THEN <<>>
    ELSE <<[url |-> createImageUrlPath(folderPath, file), name |-> file,
            alt |-> replaceUnderscores(stripExtension(file)), size |-> <<>>,
            lastModified |-> <<>>, originalUrl |-> <<>>]>>

\* an entry of a folder as readdir and stat report it; stat fails on an
\* entry that is not statable
DirEntry(name, isDir, size, mtime, statable) ==
    [name |-> name, isDirectory |-> isDir, size |-> size, mtime |-> mtime,
     statable |-> statable]

ReaddirFailure == [kind |-> "error"]

Folder(entries) == [kind |-> "entries", entries |-> entries]

Readdir(folderPath) == [io |-> "readdir", target |-> folderPath]

Stat(folderPath, file) == [io |-> "stat", target |-> folderPath \o "/" \o file]

\* the loop of lines 322-340 over the entries read
RECURSIVE readEntries(_, _, _)
readEntries(entries, folderPath, patterns) ==
    IF entries = <<>> THEN Resolved(<<>>, <<>>)
    ELSE LET before == readEntries(Front(entries), folderPath, patterns)
             entry == Last(entries)
             requests == Append(before.requests, Stat(folderPath, entry.name))
             item == processFile(entry.name, folderPath, patterns)
         IN IF before.threw THEN before
            ELSE IF ~entry.statable THEN Rejected(requests)
            ELSE IF entry.isDirectory \/ item = <<>>
                 THEN Resolved(before.items, requests)
            ELSE Resolved(Append(before.items,
                                 [item[1] EXCEPT !.size = <<entry.size>>,
                                                 !.lastModified = <<entry.mtime>>]),
                          requests)

\* fetchImagesFromFolder, lines 303-358: every outcome the call may have
\* over the folder, ssr being import.meta.env.SSR
fetchImagesFromFolder(folderPath, patterns, maxImages, folder, ssr) ==
    IF ~ssr THEN {Rejected(<<>>)}
    ELSE IF folder.kind = "error" THEN {Rejected(<<Readdir(folderPath)>>)}
    ELSE LET read == readEntries(folder.entries, folderPath, patterns)
             requests == <<Readdir(folderPath)>> \o read.requests
         IN IF read.threw THEN {Rejected(requests)}
            ELSE {Resolved(truncate(sorted, maxImages), requests) :
                     sorted \in sortOutcomes(read.items)}

(***************************************************************************)
(* fetchFromSource and fetchMediaItems                                     *)
(***************************************************************************)
\* a MediaSourceConfig; baseUrl and localFolder are <<>> when not set
MediaSourceConfig(sourceType, baseUrl, localFolder, patterns) ==
    [sourceType |-> sourceType, baseUrl |-> baseUrl, localFolder |-> localFolder,
     patterns |-> patterns]

\* what the outside holds for one source: the answer to a GET, the folder,
\* and the runtime
Surroundings(response, folder, ssr, hasDOMParser) ==
    [response |-> response, folder |-> folder, ssr |-> ssr,
     hasDOMParser |-> hasDOMParser]

\* fetchFromSource, lines 366-397
fetchFromSource(source, maxImages, world) ==
    IF source.sourceType = "url" THEN
        IF source.baseUrl \in {<<>>, <<"">>} THEN {Rejected(<<>>)}
        ELSE fetchImagesFromUrl(source.baseUrl[1], source.patterns, maxImages,
                                world.response, world.hasDOMParser)
    ELSE IF source.sourceType = "folder" THEN
        IF source.localFolder \in {<<>>, <<"">>} THEN {Rejected(<<>>)}
        ELSE fetchImagesFromFolder(source.localFolder[1], source.patterns, maxImages,
                                   world.folder, world.ssr)
    ELSE {Rejected(<<>>)}

\* both sources awaited with Promise.allSettled: a rejected source counts
\* as an empty list
fetchMediaItemsAllSettled(config, splashWorld, screenshotWorld) ==
    {[threw |-> FALSE,
      items |-> <<[splashScreens |-> splash.items, screenshots |-> shots.items]>>,
      requests |-> [splashSource |-> splash.requests,
                    screenshotSource |-> shots.requests]] :
        splash \in fetchFromSource(config.splashSource, config.maxImages, splashWorld),
        shots \in fetchFromSource(config.screenshotSource, config.maxImages,
                                  screenshotWorld)}

\* fetchMediaItems, lines 403-416: both sources are started, the call
\* rejects when either rejects
fetchMediaItems(config, splashWorld, screenshotWorld) ==
    {[threw |-> splash.threw \/ shots.threw,
      items |-> IF splash.threw \/ shots.threw THEN <<>>
                ELSE <<[splashScreens |-> splash.items, screenshots |-> shots.items]>>,
      requests |-> [splashSource |-> splash.requests,
                    screenshotSource |-> shots.requests]] :
        splash \in fetchFromSource(config.splashSource, config.maxImages, splashWorld),
        shots \in fetchFromSource(config.screenshotSource, config.maxImages,
                                  screenshotWorld)}

(***************************************************************************)
(* SpecFetcher: the source lister called on listings, folders and configs  *)
(***************************************************************************)
\* most anchors in a directory listing
MaxLinks == 2

ParentLink == Anchor("../", "Parent Directory", <<>>, <<>>, TRUE)
SubdirLink == Anchor("sub/", "sub/", <<"01-Jan-2023 09:00">>, <<>>, TRUE)
PngLink == Anchor("a.png", "a.png", <<"12-Jan-2024 10:30">>, <<"1,234">>, TRUE)
\* the same file linked through ./
DotSlashLink == Anchor("./a.png", "a.png", <<>>, <<>>, TRUE)
UpperLink == Anchor("B.PNG", "B.PNG", <<"01-Jan-2023 09:00">>, <<"10">>, TRUE)
TextLink == Anchor("other.txt", "other.txt", <<>>, <<"7">>, TRUE)
\* a file without an extension
ReadmeLink == Anchor("README", "README", <<>>, <<>>, TRUE)
SpacedLink == Anchor("a%20b.png", "a b.png", <<>>, <<>>, TRUE)
\* a file name that holds a line feed
LineFeedLink == Anchor("n%0A.png", "n .png", <<>>, <<>>, TRUE)
\* a percent sign that starts no escape sequence
MalformedLink == Anchor("50%.png", "50%.png", <<>>, <<>>, TRUE)
\* an anchor whose content is markup: LINK_REGEX does not match it
WrappedLink == Anchor("g.gif", "", <<>>, <<>>, FALSE)
\* an older file linked through ./
OldDotLink == Anchor("./a.png", "a.png", <<"01-Jan-2023 09:00">>, <<"10">>, TRUE)

\* a listing whose rows carry a date only in part
MixedListing == <<PngLink, SpacedLink, OldDotLink>>

Anchors ==
    {ParentLink, SubdirLink, PngLink, DotSlashLink, UpperLink, TextLink, ReadmeLink,
     SpacedLink, LineFeedLink, MalformedLink, WrappedLink}

Documents == SeqsUpTo(Anchors, MaxLinks)

PatternLists ==
    {<<>>, <<"*">>, <<"*.png">>, <<"*.png", "*.txt">>, <<" *.PNG ">>, <<"?.png">>,
     <<"read*">>}

\* maxImages: absent, zero, negative, positive
MaxImagesValues == {<<>>, <<0>>, <<-1>>, <<1>>, <<2>>}

Responses ==
    {NetworkFailure, Response(404, <<>>), Response(500, <<PngLink>>),
     Response(304, <<PngLink>>), Response(204, <<>>)}
        \cup {Response(200, html) : html \in Documents \cup {MixedListing}}

OldPng == DirEntry("old.png", FALSE, 10, "2023-01-01T09:00:00.000Z", TRUE)
NewPng == DirEntry("new.png", FALSE, 20, "2024-01-12T10:30:00.000Z", TRUE)
Notes == DirEntry("notes.txt", FALSE, 5, "2024-01-12T10:30:00.000Z", TRUE)
Subfolder == DirEntry("sub", TRUE, 0, "2023-01-01T09:00:00.000Z", TRUE)
BrokenLink == DirEntry("gone.png", FALSE, 0, "2023-01-01T09:00:00.000Z", FALSE)

Folders ==
    {ReaddirFailure, Folder(<<>>), Folder(<<OldPng, NewPng>>),
     Folder(<<NewPng, Subfolder, OldPng>>), Folder(<<OldPng, Notes, NewPng>>),
     Folder(<<OldPng, BrokenLink>>)}

FolderPaths == {"/srv/img", "./public/splash", "public/shots"}

Sources ==
    {MediaSourceConfig("url", <<BaseUrl>>, <<>>, <<"*.png">>),
     MediaSourceConfig("url", <<>>, <<"/srv/img">>, <<"*.png">>),
     MediaSourceConfig("url", <<"">>, <<>>, <<"*">>),
     MediaSourceConfig("folder", <<>>, <<"/srv/img">>, <<"*.png">>),
     MediaSourceConfig("folder", <<BaseUrl>>, <<>>, <<"*.png">>),
     MediaSourceConfig("ftp", <<BaseUrl>>, <<"/srv/img">>, <<"*">>)}

MediaConfig(splashSource, screenshotSource, maxImages) ==
    [splashSource |-> splashSource, screenshotSource |-> screenshotSource,
     maxImages |-> maxImages]

Worlds ==
    {Surroundings(Response(200, <<PngLink, UpperLink>>), Folder(<<OldPng, NewPng>>),
                  TRUE, FALSE),
     Surroundings(Response(404, <<>>), ReaddirFailure, TRUE, FALSE),
     Surroundings(NetworkFailure, Folder(<<OldPng>>), FALSE, TRUE)}

\* the tuple of everything but lastOp
quietVars ==
    <<imageCacheDir, metadataCacheDir, savedImages, everSavedMetadata, savedMetadata,
      hashArgs, hashResults, keyArgs, keyResults, pageVars, inFlight, disk, musicPlayer>>

\* the lister keeps no state between calls: a behaviour is one call
InitFetcher == CacheIdle /\ HashIdle /\ KeyIdle /\ PageIdle

FetchImagesFromUrl(patterns, maxImages, response, hasDOMParser) ==
    /\ lastOp = NoOp
    /\ \E outcome \in fetchImagesFromUrl(BaseUrl, patterns, maxImages, response,
                                         hasDOMParser) :
          lastOp' = [op |-> "fetchImagesFromUrl", baseUrl |-> BaseUrl,
                     patterns |-> patterns, maxImages |-> maxImages,
                     response |-> response, hasDOMParser |-> hasDOMParser,
                     threw |-> outcome.threw, result |-> outcome.items,
                     requests |-> outcome.requests]
    /\ UNCHANGED quietVars

FetchImagesFromFolder(folderPath, patterns, maxImages, folder, ssr) ==
    /\ lastOp = NoOp
    /\ \E outcome \in fetchImagesFromFolder(folderPath, patterns, maxImages, folder,
                                            ssr) :
          lastOp' = [op |-> "fetchImagesFromFolder", folderPath |-> folderPath,
                     patterns |-> patterns, maxImages |-> maxImages,
                     folder |-> folder, ssr |-> ssr,
                     threw |-> outcome.threw, result |-> outcome.items,
                     requests |-> outcome.requests]
    /\ UNCHANGED quietVars

FetchMediaItems(config, splashWorld, screenshotWorld) ==
    /\ lastOp = NoOp
    /\ \E outcome \in fetchMediaItems(config, splashWorld, screenshotWorld) :
          lastOp' = [op |-> "fetchMediaItems", config |-> config,
                     splashWorld |-> splashWorld, screenshotWorld |-> screenshotWorld,
                     threw |-> outcome.threw, result |-> outcome.items,
                     requests |-> outcome.requests]
    /\ UNCHANGED quietVars

NextFetcher ==
    \/ \E p \in PatternLists, m \in MaxImagesValues, r \in Responses, d \in BOOLEAN :
          FetchImagesFromUrl(p, m, r, d)
    \/ \E f \in FolderPaths, p \in PatternLists, m \in MaxImagesValues, d \in Folders,
          ssr \in BOOLEAN :
          FetchImagesFromFolder(f, p, m, d, ssr)
    \/ \E s, c \in Sources, m \in {<<>>, <<1>>}, w, v \in Worlds :
          FetchMediaItems(MediaConfig(s, c, m), w, v)

SpecFetcher == InitFetcher /\ [][NextFetcher]_vars

(***************************************************************************)
(* Properties of the source lister                                         *)
(***************************************************************************)
\* a glob: * is any run and ? any one of the characters outside excluded,
\* every other character is itself, letters compared without case
RECURSIVE GlobMatches(_, _, _)
GlobMatches(pattern, name, excluded) ==
    IF pattern = "" THEN name = ""
    ELSE IF CharAt(pattern, 1) = "*" THEN
        \/ GlobMatches(From(pattern, 2), name, excluded)
        \/ /\ name # ""
           /\ CharAt(name, 1) \notin excluded
           /\ GlobMatches(pattern, From(name, 2), excluded)
    ELSE /\ name # ""
         /\ IF CharAt(pattern, 1) = "?" THEN CharAt(name, 1) \notin excluded
            ELSE Canonical(CharAt(pattern, 1)) = Canonical(CharAt(name, 1))
         /\ GlobMatches(From(pattern, 2), From(name, 2), excluded)

\* the name an anchor gives its item: the decoded href
NameOf(link) ==
    IF isWellEncoded(link.href) THEN decodeURIComponent(link.href) ELSE link.href

IsDirectoryTarget(href) ==
    href = "../" \/ href = "/" \/ (href # "" /\ CharAt(href, Len(href)) = "/")

\* the call got a listing to work on: a 2xx response and a non-empty
\* pattern list
ListedWithPatterns ==
    /\ lastOp.op = "fetchImagesFromUrl"
    /\ lastOp.response.kind = "response"
    /\ lastOp.response.status = 200
    /\ lastOp.patterns # <<>>

\* no item was cut off by maxImages
NotTruncated ==
    \/ lastOp.maxImages = <<>>
    \/ lastOp.maxImages[1] <= 0
    \/ Len(lastOp.result) < lastOp.maxImages[1]

Returned_(name) == \E i \in 1..Len(lastOp.result) : lastOp.result[i].name = name

\* every returned item is named by an anchor of the listing that is not a
\* directory link
ReturnedFromFileLinks ==
    \A i \in 1..Len(lastOp.result) :
        \E k \in 1..Len(lastOp.response.html) :
            /\ ~IsDirectoryTarget(lastOp.response.html[k].href)
            /\ NameOf(lastOp.response.html[k]) = lastOp.result[i].name

\* C11 as stated: for a directory-listing response and a non-empty pattern
\* list, every item fetchImagesFromUrl returns has a name matching a pattern
\* (case-insensitive glob, * any run, ? any single character) and comes from
\* no directory link; conversely every non-directory link whose name matches
\* a pattern is returned, before truncation.
C11_ReturnsExactlyMatchingFileLinks ==
    ListedWithPatterns =>
        /\ \A i \in 1..Len(lastOp.result) :
              \E p \in 1..Len(lastOp.patterns) :
                 GlobMatches(lastOp.patterns[p], lastOp.result[i].name, {})
        /\ ReturnedFromFileLinks
        /\ NotTruncated =>
              \A k \in 1..Len(lastOp.response.html) :
                 LET link == lastOp.response.html[k]
                 IN (/\ ~IsDirectoryTarget(link.href)
                     /\ \E p \in 1..Len(lastOp.patterns) :
                           GlobMatches(lastOp.patterns[p], NameOf(link), {}))
                        => Returned_(NameOf(link))

\* the structured parse keeps the link: plain form, not a directory, an
\* image extension on the href or a dot in the link text
KeptByStructuredParse(link) ==
    /\ link.plain
    /\ ~IsDirectoryTarget(link.href)
    /\ \/ \E ext \in ImageExtensions : endsWith(toLowerCase(link.href), ext)
       \/ \E i \in 1..Len(link.text) : CharAt(link.text, i) = "."

\* C11 amended: when the call resolves, every returned item has a name (the
\* decoded href) matching a pattern with its surrounding white space
\* trimmed, as a case-insensitive glob whose * and ? match no line
\* terminator, and comes from no directory link; conversely every plain
\* non-directory link whose href ends in an image extension or whose text
\* holds a dot, and whose name matches such a pattern, is returned, before
\* truncation.  The call rejects when the href of a link kept does not decode.
C11_ReturnsMatchingLinksKept ==
    (ListedWithPatterns /\ ~lastOp.threw) =>
        /\ \A i \in 1..Len(lastOp.result) :
              \E p \in 1..Len(lastOp.patterns) :
                 GlobMatches(trim(lastOp.patterns[p]), lastOp.result[i].name,
                             LineTerminators)
        /\ ReturnedFromFileLinks
        /\ NotTruncated =>
              \A k \in 1..Len(lastOp.response.html) :
                 LET link == lastOp.response.html[k]
                 IN (/\ KeptByStructuredParse(link)
                     /\ \E p \in 1..Len(lastOp.patterns) :
                           GlobMatches(trim(lastOp.patterns[p]), NameOf(link),
                                       LineTerminators))
                        => Returned_(NameOf(link))

\* a listing of an image and a text file filtered down to the image
C11_Witness ==
    /\ ListedWithPatterns
    /\ ~lastOp.threw
    /\ Len(lastOp.result) = 1
    /\ \E k \in 1..Len(lastOp.response.html) :
          /\ ~IsDirectoryTarget(lastOp.response.html[k].href)
          /\ ~Returned_(NameOf(lastOp.response.html[k]))
          /\ lastOp.response.html[k].href = "other.txt"

\* the filtered list of the last call before it is sorted
FilteredList ==
    IF lastOp.op = "fetchImagesFromUrl"
    THEN filterByPatterns(parseDirectoryListing(lastOp.response.html, lastOp.baseUrl,
                                                lastOp.hasDOMParser).items,
                          lastOp.patterns)
    ELSE readEntries(lastOp.folder.entries, lastOp.folderPath, lastOp.patterns).items

\* the first n elements of a list, all of them when it is shorter
FirstN(items, n) == [i \in 1..(IF n < Len(items) THEN n ELSE Len(items)) |-> items[i]]

\* C12: fetchImagesFromUrl and fetchImagesFromFolder return at most
\* maxImages items when maxImages is positive, namely the first maxImages
\* items of the sorted filtered list, and the whole sorted filtered list when
\* maxImages is absent, zero or negative.
C12_TruncatesToMaxImages ==
    (lastOp.op \in {"fetchImagesFromUrl", "fetchImagesFromFolder"} /\ ~lastOp.threw) =>
        IF lastOp.maxImages # <<>> /\ lastOp.maxImages[1] > 0
        THEN /\ Len(lastOp.result) <= lastOp.maxImages[1]
             /\ \E sorted \in sortOutcomes(FilteredList) :
                   lastOp.result = FirstN(sorted, lastOp.maxImages[1])
        ELSE lastOp.result \in sortOutcomes(FilteredList)

\* a folder of two images listed with maxImages 1: the newer one is returned
C12_Witness ==
    /\ lastOp.op = "fetchImagesFromFolder"
    /\ ~lastOp.threw
    /\ lastOp.maxImages = <<1>>
    /\ Len(FilteredList) = 2
    /\ Len(lastOp.result) = 1
    /\ lastOp.result[1].name = "new.png"

\* the GET of the last fetchImagesFromUrl failed: no connection, or a
\* status outside 200..299
RequestFailed ==
    \/ lastOp.response.kind = "network"
    \/ lastOp.response.status \notin 200..299

\* C13: fetchImagesFromUrl rejects whenever the directory-listing request
\* fails at the network level or returns a non-2xx status; it then returns
\* no items and has issued exactly one GET, without a retry.
C13_FailedRequestRejectsOnce ==
    (lastOp.op = "fetchImagesFromUrl" /\ RequestFailed) =>
        /\ lastOp.threw
        /\ lastOp.result = <<>>
        /\ lastOp.requests = <<Get(lastOp.baseUrl)>>

\* a 500 response whose body lists an image: rejected after one GET
C13_Witness ==
    /\ lastOp.op = "fetchImagesFromUrl"
    /\ lastOp.response = Response(500, <<PngLink>>)
    /\ lastOp.patterns = <<"*.png">>
    /\ lastOp.threw
    /\ Len(lastOp.requests) = 1

\* a source descriptor that names no place to list: sourceType url without
\* baseUrl, folder without localFolder, or another sourceType
Misconfigured(source) ==
    \/ source.sourceType = "url" /\ source.baseUrl \in {<<>>, <<"">>}
    \/ source.sourceType = "folder" /\ source.localFolder \in {<<>>, <<"">>}
    \/ source.sourceType \notin {"url", "folder"}

SourceNames == {"splashSource", "screenshotSource"}

\* C14: fetchMediaItems rejects whenever either source descriptor is
\* misconfigured, and no HTTP request or directory read is issued for the
\* misconfigured source.
C14_MisconfiguredSourceFailsFast ==
    lastOp.op = "fetchMediaItems" =>
        \A name \in SourceNames :
            Misconfigured(lastOp.config[name]) =>
                /\ lastOp.threw
                /\ lastOp.requests[name] = <<>>

\* a splash source without baseUrl next to a screenshot source that is
\* listed: the call rejects, only the screenshot listing was requested
C14_Witness ==
    /\ lastOp.op = "fetchMediaItems"
    /\ Misconfigured(lastOp.config.splashSource)
    /\ ~Misconfigured(lastOp.config.screenshotSource)
    /\ lastOp.threw
    /\ lastOp.requests.splashSource = <<>>
    /\ lastOp.requests.screenshotSource # <<>>

(***************************************************************************)
(* The cache operations when file-system calls fail                        *)
(*   failing: the calls among FsCalls that fail during the operation       *)
(*   stuck:   the files unlink cannot remove                               *)
(* A body is the code inside try; it yields Thrown or Value(v).            *)
(***************************************************************************)
FsCalls == {"mkdir", "stat", "readFile", "writeFile", "readdir", "unlink"}

Thrown == [threw |-> TRUE]

Value(v) == [threw |-> FALSE, value |-> v]

\* the body run without a handler: what it throws reaches the caller
Uncaught(outcome, fallback) == outcome

\* try { body } catch { return fallback }
Caught(outcome, fallback) == IF outcome.threw THEN Value(fallback) ELSE outcome

\* the content of a file that JSON.parse rejects: cut short or overwritten
Corrupt == [corrupt |-> TRUE]

IsCorrupt(content) == "corrupt" \in DOMAIN content

\* getCacheDir: mkdir -p of the cache directory
getCacheDirUnder(failing) == IF "mkdir" \in failing THEN Thrown ELSE Value(TRUE)

\* hasCachedImages, lines 113-124
hasCachedImagesUnder(dir, metadataHash, cacheKey, failing) ==
    Caught(IF getCacheDirUnder(failing).threw THEN Thrown
           ELSE IF "stat" \in failing
                   \/ getCacheFilePath(metadataHash, cacheKey) \notin DOMAIN dir
                THEN Thrown
           ELSE Value(TRUE),
           FALSE)

\* loadCachedImages, lines 129-183
loadCachedImagesUnder(dir, metadataHash, cacheKey, originalItems, failing) ==
    LET cachePath == getCacheFilePath(metadataHash, cacheKey)
    IN Caught(IF getCacheDirUnder(failing).threw THEN Thrown
              ELSE IF "readFile" \in failing \/ cachePath \notin DOMAIN dir THEN Thrown
              ELSE IF IsCorrupt(dir[cachePath]) THEN Thrown
              ELSE Value(loadCachedImages(dir, metadataHash, cacheKey, originalItems)),
              <<>>)

\* the directories a failed writeFile may leave: the file as it was, or
\* created or cut short with content that does not parse
AfterFailedWrite(dir, cachePath) ==
    {dir, [n \in DOMAIN dir \cup {cachePath} |->
              IF n = cachePath THEN Corrupt ELSE dir[n]]}

\* saveCachedImages, lines 188-217: the outcomes, each with the directory
\* it leaves
saveCachedImagesUnder(dir, metadataHash, cacheKey, optimizedItems, failing) ==
    LET cachePath == getCacheFilePath(metadataHash, cacheKey)
    IN IF getCacheDirUnder(failing).threw
       THEN {[outcome |-> Caught(Thrown, TRUE), dir |-> dir]}
       ELSE IF "writeFile" \in failing
       THEN {[outcome |-> Caught(Thrown, TRUE), dir |-> d] :
                d \in AfterFailedWrite(dir, cachePath)}
       ELSE {[outcome |-> Caught(Value(TRUE), TRUE),
              dir |-> saveCachedImages(dir, metadataHash, cacheKey, optimizedItems)]}

\* the loop of a sweep: unlink of a stale file that is stuck, or of any
\* stale file when unlink fails, throws into the inner handler and the
\* file stays
sweepUnder(dir, currentHash, failing, stuck) ==
    LET stale == {file \in DOMAIN dir :
                     endsWith(file, ".json") /\ ~startsWith(file, currentHash \o "-")}
        removed == IF "unlink" \in failing THEN stale \ stuck ELSE stale
    IN [n \in DOMAIN dir \ removed |-> dir[n]]

\* clearStaleCacheFiles of either cache: image-cache.ts lines 235-260,
\* metadata-cache.ts lines 420-445
clearStaleCacheFilesUnder(dir, currentHash, failing, stuck) ==
    IF getCacheDirUnder(failing).threw \/ "readdir" \in failing
    THEN [outcome |-> Caught(Thrown, TRUE), dir |-> dir]
    ELSE [outcome |-> Caught(Value(TRUE), TRUE),
          dir |-> sweepUnder(dir, currentHash, failing, stuck)]

\* invalidateImageCache and invalidateMetadataCache: the fingerprint is
\* computed outside any handler, the sweep is awaited
invalidateUnder(dir, splashScreens, screenshots, failing, stuck) ==
    clearStaleCacheFilesUnder(dir, generateMetadataHash(splashScreens, screenshots),
                              failing, stuck)

\* hasCachedMetadata, lines 330-344
hasCachedMetadataUnder(dir, imageUrl, splashScreens, screenshots, failing) ==
    Caught(IF getCacheDirUnder(failing).threw THEN Thrown
           ELSE IF "stat" \in failing
                   \/ ~hasCachedMetadata(dir, imageUrl, splashScreens, screenshots)
                THEN Thrown
           ELSE Value(TRUE),
           FALSE)

\* loadCachedMetadata, lines 359-384
loadCachedMetadataUnder(dir, imageUrl, splashScreens, screenshots, failing) ==
    LET cachePath == getMetadataCacheFilePath(
                         getCurrentMetadataHash(splashScreens, screenshots),
                         generateImageUrlHash(imageUrl))
    IN Caught(IF getCacheDirUnder(failing).threw THEN Thrown
              ELSE IF "readFile" \in failing \/ cachePath \notin DOMAIN dir THEN Thrown
              ELSE IF IsCorrupt(dir[cachePath]) THEN Thrown
              ELSE Value(loadCachedMetadata(dir, imageUrl, splashScreens, screenshots)),
              Undefined)

\* saveCachedMetadata, lines 390-413
saveCachedMetadataUnder(dir, imageUrl, metadata, splashScreens, screenshots, failing) ==
    LET cachePath == getMetadataCacheFilePath(
                         getCurrentMetadataHash(splashScreens, screenshots),
                         generateImageUrlHash(imageUrl))
    IN IF getCacheDirUnder(failing).threw
       THEN {[outcome |-> Caught(Thrown, TRUE), dir |-> dir]}
       ELSE IF "writeFile" \in failing
       THEN {[outcome |-> Caught(Thrown, TRUE), dir |-> d] :
                d \in AfterFailedWrite(dir, cachePath)}
       ELSE {[outcome |-> Caught(Value(TRUE), TRUE),
              dir |-> saveCachedMetadata(dir, imageUrl, metadata, splashScreens,
                                         screenshots)]}

(***************************************************************************)
(* SpecFaults: calls of the two caches over a file system that may fail.   *)
(* The history variables of the saves are not kept here.                   *)
(***************************************************************************)
MaxFaultFiles == 1

\* the failures drawn for an operation that makes the given calls: none,
\* each call alone, all of them
FaultSets(calls) == {{}} \cup {{call} : call \in calls} \cup {calls}

HasCalls == {"mkdir", "stat"}
LoadCalls == {"mkdir", "readFile"}
SaveCalls == {"mkdir", "writeFile"}
SweepCalls == {"mkdir", "readdir", "unlink"}

\* a write may create a file only while the directories hold fewer than
\* MaxFaultFiles
MayWriteUnder(dir, file) == file \in DOMAIN dir \/ EntryCount < MaxFaultFiles

InitFaults ==
    /\ imageCacheDir = EmptyDir
    /\ metadataCacheDir = EmptyDir
    /\ savedImages = EmptyDir
    /\ everSavedMetadata = {}
    /\ savedMetadata = EmptyDir
    /\ lastOp = NoOp
    /\ HashIdle
    /\ KeyIdle
    /\ PageIdle

faultVars == <<savedImages, everSavedMetadata, savedMetadata, pureVars>>

\* what a call under faults leaves in lastOp: the entry file it is about
\* (the fingerprint, for a sweep), the directory before the call, whether
\* the entry file it read did not parse, what reached the caller
FaultRecord(op, target, stuck, failing, before, corrupt, outcome) ==
    [op |-> op, target |-> target, stuck |-> stuck, failing |-> failing,
     before |-> before, corrupt |-> corrupt, threw |-> outcome.threw,
     result |-> IF outcome.threw THEN <<>> ELSE outcome.value]

EntryIsCorrupt(dir, file) == file \in DOMAIN dir /\ IsCorrupt(dir[file])

HasCachedImagesUnder(metadataHash, cacheKey, failing) ==
    /\ lastOp' = FaultRecord("hasCachedImages", getCacheFilePath(metadataHash, cacheKey),
                             {}, failing, imageCacheDir, FALSE,
                             hasCachedImagesUnder(imageCacheDir, metadataHash, cacheKey,
                                                  failing))
    /\ UNCHANGED <<imageCacheDir, metadataCacheDir, faultVars>>

LoadCachedImagesUnder(metadataHash, cacheKey, originalItems, failing) ==
    /\ lastOp' = FaultRecord("loadCachedImages", getCacheFilePath(metadataHash, cacheKey),
                             {}, failing, imageCacheDir,
                             EntryIsCorrupt(imageCacheDir,
                                            getCacheFilePath(metadataHash, cacheKey)),
                             loadCachedImagesUnder(imageCacheDir, metadataHash, cacheKey,
                                                   originalItems, failing))
    /\ UNCHANGED <<imageCacheDir, metadataCacheDir, faultVars>>

SaveCachedImagesUnder(options, listing, failing) ==
    LET metadataHash == Fingerprint(listing)
        cacheKey == getOptimizationCacheKey(options)
    IN /\ MayWriteUnder(imageCacheDir, getCacheFilePath(metadataHash, cacheKey))
       /\ \E saved \in saveCachedImagesUnder(imageCacheDir, metadataHash, cacheKey,
                                             AllSucceeded(listing, options), failing) :
             /\ imageCacheDir' = saved.dir
             /\ lastOp' = FaultRecord("saveCachedImages",
                                      getCacheFilePath(metadataHash, cacheKey), {},
                                      failing, imageCacheDir, FALSE, saved.outcome)
       /\ UNCHANGED <<metadataCacheDir, faultVars>>

InvalidateImageCacheUnder(listing, failing, stuck) ==
    LET swept == invalidateUnder(imageCacheDir, listing.splashScreens,
                                 listing.screenshots, failing, stuck)
    IN /\ imageCacheDir' = swept.dir
       /\ lastOp' = FaultRecord("invalidateImageCache", Fingerprint(listing), stuck,
                                failing, imageCacheDir, FALSE, swept.outcome)
       /\ UNCHANGED <<metadataCacheDir, faultVars>>

HasCachedMetadataUnder(imageUrl, listing, failing) ==
    /\ lastOp' = FaultRecord("hasCachedMetadata",
                             getMetadataCacheFilePath(Fingerprint(listing),
                                                      generateImageUrlHash(imageUrl)),
                             {}, failing, metadataCacheDir, FALSE,
                             hasCachedMetadataUnder(metadataCacheDir, imageUrl,
                                                    listing.splashScreens,
                                                    listing.screenshots, failing))
    /\ UNCHANGED <<imageCacheDir, metadataCacheDir, faultVars>>

LoadCachedMetadataUnder(imageUrl, listing, failing) ==
    LET cachePath == getMetadataCacheFilePath(Fingerprint(listing),
                                              generateImageUrlHash(imageUrl))
    IN /\ lastOp' = FaultRecord("loadCachedMetadata", cachePath, {}, failing,
                                metadataCacheDir,
                                EntryIsCorrupt(metadataCacheDir, cachePath),
                                loadCachedMetadataUnder(metadataCacheDir, imageUrl,
                                                        listing.splashScreens,
                                                        listing.screenshots, failing))
       /\ UNCHANGED <<imageCacheDir, metadataCacheDir, faultVars>>

SaveCachedMetadataUnder(imageUrl, metadata, listing, failing) ==
    LET cachePath == getMetadataCacheFilePath(Fingerprint(listing),
                                              generateImageUrlHash(imageUrl))
    IN /\ MayWriteUnder(metadataCacheDir, cachePath)
       /\ \E saved \in saveCachedMetadataUnder(metadataCacheDir, imageUrl, metadata,
                                               listing.splashScreens,
                                               listing.screenshots, failing) :
             /\ metadataCacheDir' = saved.dir
             /\ lastOp' = FaultRecord("saveCachedMetadata", cachePath, {}, failing,
                                      metadataCacheDir, FALSE, saved.outcome)
       /\ UNCHANGED <<imageCacheDir, faultVars>>

InvalidateMetadataCacheUnder(listing, failing, stuck) ==
    LET swept == invalidateUnder(metadataCacheDir, listing.splashScreens,
                                 listing.screenshots, failing, stuck)
    IN /\ metadataCacheDir' = swept.dir
       /\ lastOp' = FaultRecord("invalidateMetadataCache", Fingerprint(listing), stuck,
                                failing, metadataCacheDir, FALSE, swept.outcome)
       /\ UNCHANGED <<imageCacheDir, faultVars>>

NextFaults ==
    \/ \E f \in Fingerprints, k \in CacheKeys, x \in FaultSets(HasCalls) :
          HasCachedImagesUnder(f, k, x)
    \/ \E l \in Listings, k \in CacheKeys, x \in FaultSets(LoadCalls) :
          LoadCachedImagesUnder(Fingerprint(l), k, l, x)
    \/ \E o \in CacheOptions, l \in Listings, x \in FaultSets(SaveCalls) :
          SaveCachedImagesUnder(o, l, x)
    \/ \E l \in Listings, x \in FaultSets(SweepCalls),
          stuck \in SUBSET DOMAIN imageCacheDir :
          InvalidateImageCacheUnder(l, x, stuck)
    \/ \E u \in ImageUrls, l \in Listings, x \in FaultSets(HasCalls) :
          HasCachedMetadataUnder(u, l, x)
    \/ \E u \in ImageUrls, l \in Listings, x \in FaultSets(LoadCalls) :
          LoadCachedMetadataUnder(u, l, x)
    \/ \E u \in ImageUrls, m \in {<<>>, <<FullInfo>>}, l \in Listings,
          x \in FaultSets(SaveCalls) :
          SaveCachedMetadataUnder(u, m, l, x)
    \/ \E l \in Listings, x \in FaultSets(SweepCalls),
          stuck \in SUBSET DOMAIN metadataCacheDir :
          InvalidateMetadataCacheUnder(l, x, stuck)

SpecFaults == InitFaults /\ [][NextFaults]_vars


(***************************************************************************)
(* Properties of the caches under file-system failures                     *)
(***************************************************************************)
UnderFaults == "failing" \in DOMAIN lastOp

DirAfter ==
    IF lastOp.op \in {"hasCachedImages", "loadCachedImages", "saveCachedImages",
                      "invalidateImageCache"}
    THEN imageCacheDir ELSE metadataCacheDir

Fails(calls) == lastOp.failing \cap calls # {}

\* every file but the target is as it was before the call
OthersUntouched ==
    /\ DOMAIN DirAfter \ {lastOp.target} = DOMAIN lastOp.before \ {lastOp.target}
    /\ \A file \in DOMAIN DirAfter \ {lastOp.target} :
          DirAfter[file] = lastOp.before[file]

\* C15: no operation of either cache lets a file-system failure reach its
\* caller.  Whatever fails among mkdir, stat, readFile, writeFile, readdir
\* and unlink, and whatever an entry file holds, the call completes; a
\* has* call whose mkdir or stat fails answers false; a load whose mkdir or
\* readFile fails, or whose entry file does not parse, answers null
\* (images) or undefined (metadata); a save whose mkdir fails and a sweep
\* whose mkdir or readdir fails leave the directory as it was, a save whose
\* writeFile fails leaves every other file as it was, and a sweep whose
\* unlink fails leaves the stuck files in place.
C15_NoFsFailurePropagates ==
    UnderFaults =>
        /\ ~lastOp.threw
        /\ lastOp.op \in {"hasCachedImages", "hasCachedMetadata"}
              /\ Fails({"mkdir", "stat"})
              => lastOp.result = FALSE
        /\ lastOp.op = "loadCachedImages"
              /\ (Fails({"mkdir", "readFile"}) \/ lastOp.corrupt)
              => lastOp.result = <<>>
        /\ lastOp.op = "loadCachedMetadata"
              /\ (Fails({"mkdir", "readFile"}) \/ lastOp.corrupt)
              => lastOp.result = Undefined
        /\ lastOp.op \in {"saveCachedImages", "saveCachedMetadata"}
              => /\ Fails({"mkdir"}) => DirAfter = lastOp.before
                 /\ Fails({"writeFile"}) => OthersUntouched
        /\ lastOp.op \in {"invalidateImageCache", "invalidateMetadataCache"}
              => /\ Fails({"mkdir", "readdir"}) => DirAfter = lastOp.before
                 /\ Fails({"unlink"})
                       => \A file \in lastOp.stuck :
                             /\ file \in DOMAIN DirAfter
                             /\ DirAfter[file] = lastOp.before[file]

\* a load met an entry file that does not parse and answered null with no
\* call failing
C15_Witness ==
    /\ UnderFaults
    /\ lastOp.op = "loadCachedImages"
    /\ lastOp.failing = {}
    /\ lastOp.corrupt
    /\ ~lastOp.threw
    /\ lastOp.result = <<>>


(***************************************************************************)
(* Properties of a successful load                                         *)
(***************************************************************************)
\* the mappings of the entry file the last load read, per category
MappingsRead(cat) ==
    imageCacheDir[getCacheFilePath(lastOp.metadataHash, lastOp.cacheKey)][cat]

Unmatched(cat, i) ==
    \A j \in 1..Len(MappingsRead(cat)) :
        MappingsRead(cat)[j].originalUrl # lastOp.items[cat][i].url

\* C16: a loadCachedImages that returns non-null returns, in each category,
\* a list of the caller's length whose i-th item is the caller's i-th item
\* with originalUrl set to that item's url and with at most the url
\* replaced; an item for which the entry file records no mapping keeps its
\* own url.
C16_LoadKeepsEveryItem ==
    (lastOp.op = "loadCachedImages" /\ "items" \in DOMAIN lastOp
        /\ lastOp.result # <<>>) =>
        \A cat \in Categories :
            /\ Len(lastOp.result[1][cat]) = Len(lastOp.items[cat])
            /\ \A i \in 1..Len(lastOp.items[cat]) :
                  LET given == lastOp.items[cat][i]
                      returned == lastOp.result[1][cat][i]
                  IN /\ returned = [given EXCEPT !.url = returned.url,
                                                 !.originalUrl = <<given.url>>]
                     /\ Unmatched(cat, i) => returned.url = given.url

\* a load re-pointed one item and returned another, for which the entry
\* file records no mapping, with its own url
C16_Witness ==
    /\ lastOp.op = "loadCachedImages"
    /\ "items" \in DOMAIN lastOp
    /\ lastOp.result # <<>>
    /\ \E cat \in Categories : \E i \in 1..Len(lastOp.items[cat]) :
          /\ Unmatched(cat, i)
          /\ lastOp.result[1][cat][i].url = lastOp.items[cat][i].url
    /\ \E cat \in Categories : \E j \in 1..Len(lastOp.items[cat]) :
          /\ ~Unmatched(cat, j)
          /\ lastOp.result[1][cat][j].url # lastOp.items[cat][j].url


(***************************************************************************)
(* image-metadata.ts: metadata embedded in the EXIF UserComment field      *)
(*   null is <<>>, a metadata record m is <<m>>                            *)
(***************************************************************************)
\* the JSON texts of the payloads used and the values JSON.parse gives
\* them; a text outside the table is not JSON
JsonValues ==
    [t \in {"{\"title\":\"T\"}", "{\"description\":\"d\"}", "{\"author\":\"someone\"}",
            "{\"sources\":[\"https://post/1\"]}", "{\"sources\":[]}",
            "{\"title\":\"\"}", "{}", "null", "\"T\"",
            "{\"title\":\"T\",\"description\":\"d\",\"author\":\"someone\",\"sources\":[\"https://post/1\"]}"}
     |-> CASE t = "{\"title\":\"T\"}" ->
                [type |-> "object", value |-> TitleOnly]
           [] t = "{\"description\":\"d\"}" ->
                [type |-> "object", value |-> MetadataInfo(<<>>, <<"d">>, <<>>, <<>>)]
           [] t = "{\"author\":\"someone\"}" ->
                [type |-> "object", value |-> MetadataInfo(<<>>, <<>>, <<"someone">>, <<>>)]
           [] t = "{\"sources\":[\"https://post/1\"]}" ->
                [type |-> "object",
                 value |-> MetadataInfo(<<>>, <<>>, <<>>, <<<<"https://post/1">>>>)]
           [] t = "{\"sources\":[]}" ->
                [type |-> "object", value |-> MetadataInfo(<<>>, <<>>, <<>>, <<<<>>>>)]
           [] t = "{\"title\":\"\"}" ->
                [type |-> "object", value |-> MetadataInfo(<<"">>, <<>>, <<>>, <<>>)]
           [] t = "{}" ->
                [type |-> "object", value |-> MetadataInfo(<<>>, <<>>, <<>>, <<>>)]
           [] t = "null" -> [type |-> "null"]
           [] t = "\"T\"" -> [type |-> "string"]
           [] OTHER -> [type |-> "object", value |-> FullInfo]]

JSONParse(text) ==
    IF text \in DOMAIN JsonValues THEN Value(JsonValues[text]) ELSE Thrown

\* Buffer.from(data, "base64").toString("utf8") for the encoded texts used;
\* no character of "%%%" is in the base64 alphabet and nothing is decoded
Base64Decoded ==
    [d \in {"eyJ0aXRsZSI6IlQifQ==", "eyJkZXNjcmlwdGlvbiI6ImQifQ==",
            "eyJhdXRob3IiOiJzb21lb25lIn0=", "eyJzb3VyY2VzIjpbImh0dHBzOi8vcG9zdC8xIl19",
            "eyJzb3VyY2VzIjpbXX0=", "eyJ0aXRsZSI6IiJ9", "e30=", "bnVsbA==", "IlQi",
            "eyJ0aXRsZSI6", "%%%",
            "eyJ0aXRsZSI6IlQiLCJkZXNjcmlwdGlvbiI6ImQiLCJhdXRob3IiOiJzb21lb25lIiwic291cmNlcyI6WyJodHRwczovL3Bvc3QvMSJdfQ=="}
     |-> CASE d = "eyJ0aXRsZSI6IlQifQ==" -> "{\"title\":\"T\"}"
           [] d = "eyJkZXNjcmlwdGlvbiI6ImQifQ==" -> "{\"description\":\"d\"}"
           [] d = "eyJhdXRob3IiOiJzb21lb25lIn0=" -> "{\"author\":\"someone\"}"
           [] d = "eyJzb3VyY2VzIjpbImh0dHBzOi8vcG9zdC8xIl19" ->
                "{\"sources\":[\"https://post/1\"]}"
           [] d = "eyJzb3VyY2VzIjpbXX0=" -> "{\"sources\":[]}"
           [] d = "eyJ0aXRsZSI6IiJ9" -> "{\"title\":\"\"}"
           [] d = "e30=" -> "{}"
           [] d = "bnVsbA==" -> "null"
           [] d = "IlQi" -> "\"T\""
           [] d = "eyJ0aXRsZSI6" -> "{\"title\":"
           [] d = "%%%" -> ""
           [] OTHER ->
                "{\"title\":\"T\",\"description\":\"d\",\"author\":\"someone\",\"sources\":[\"https://post/1\"]}"]

\* an image buffer: either ExifReader.load rejects it, or it carries the
\* tags; UserComment is absent (<<>>) or a tag with an optional description
\* string and an optional value, the bytes of an 8-byte header and the data
NotAnImage == [exif |-> "unparseable"]

Tagged(userComment) == [exif |-> "tags", UserComment |-> userComment]

UserCommentTag(description, value) == [description |-> description, value |-> value]

\* "ASCII" and three NUL bytes, each written 0
EncodingHeader == "ASCII000"

\* extractUserCommentFromImage, lines 49-93
extractUserCommentFromImage(imageBuffer) ==
    Caught(IF imageBuffer.exif = "unparseable" THEN Thrown
           ELSE IF imageBuffer.UserComment = <<>> THEN Value(<<>>)
           ELSE LET userCommentTag == imageBuffer.UserComment[1]
                IN IF userCommentTag.description # <<>>
                      /\ userCommentTag.description[1] # ""
                   THEN Value(<<trim(userCommentTag.description[1])>>)
                   ELSE IF userCommentTag.value # <<>> /\ userCommentTag.value[1] # ""
                   THEN Value(<<trim(From(userCommentTag.value[1], 9))>>)
                   ELSE Value(<<>>),
           <<>>).value

\* reading a property of a parsed value: a TypeError on null, undefined on
\* a value without the property
Property(parsed, name) ==
    IF parsed.type = "null" THEN Thrown
    ELSE IF parsed.type = "object" THEN Value(parsed.value[name])
    ELSE Value(<<>>)

\* truthiness of an optional string and of `sources && sources.length > 0`
IsTruthyString(opt) == opt # <<>> /\ opt[1] # ""

IsNonEmptyList(opt) == opt # <<>> /\ Len(opt[1]) > 0

\* the decoded payload returned whatever it holds
readMetadataWithSharpAnyPayload(buffer) ==
    LET base64Data == extractUserCommentFromImage(buffer)
    IN IF base64Data = <<>> \/ base64Data[1] = "" THEN Value(<<>>)
       ELSE LET parsed == JSONParse(Base64Decoded[base64Data[1]])
            IN Caught(IF parsed.threw \/ parsed.value.type # "object" THEN Thrown
                      ELSE Value(<<parsed.value.value>>),
                      <<>>)

\* readMetadataWithSharp, lines 100-132
readMetadataWithSharp(buffer) ==
    LET base64Data == extractUserCommentFromImage(buffer)
    IN IF base64Data = <<>> \/ base64Data[1] = "" THEN Value(<<>>)
       ELSE LET parsed == JSONParse(Base64Decoded[base64Data[1]])
            IN Caught(IF parsed.threw \/ Property(parsed.value, "title").threw
                      THEN Thrown
                      ELSE IF \/ IsTruthyString(Property(parsed.value, "title").value)
                              \/ IsTruthyString(Property(parsed.value, "description").value)
                              \/ IsTruthyString(Property(parsed.value, "author").value)
                              \/ IsNonEmptyList(Property(parsed.value, "sources").value)
                      THEN Value(<<parsed.value.value>>)
                      ELSE Value(<<>>),
                      <<>>)

\* the state of a local file that exists: a buffer, or one readFileSync
\* cannot read
Unreadable == [exif |-> "unreadable"]

\* readImageMetadataFromFile, lines 137-147; files maps the paths that
\* exist to their state
readImageMetadataFromFile(files, filePath) ==
    Caught(IF filePath \notin DOMAIN files \/ files[filePath] = Unreadable THEN Thrown
           ELSE readMetadataWithSharp(files[filePath]),
           <<>>)


(***************************************************************************)
(* fetchImageMetadata: local file first, then a fetch of the image         *)
(***************************************************************************)
\* the index of the first character of str that is in chars, 0 if none
FirstOf(str, chars) ==
    LET hits == {i \in 1..Len(str) : CharAt(str, i) \in chars}
    IN IF hits = {} THEN 0 ELSE CHOOSE i \in hits : \A j \in hits : i <= j

\* path.replace(QUERY_PARAMS_REGEX, ""): cut at the first ? or #
stripQueryParams(path) ==
    IF FirstOf(path, {"?", "#"}) = 0 THEN path
    ELSE SubSeq(path, 1, FirstOf(path, {"?", "#"}) - 1)

\* path.replace(AT_FS_PREFIX_REGEX, ""): cut through the first "@fs/" or
\* "@fs\"
stripAtFsPrefix(path) ==
    LET hits == {i \in 1..Len(path) - 3 :
                    /\ SubSeq(path, i, i + 2) = "@fs"
                    /\ CharAt(path, i + 3) \in {"/", "\\"}}
    IN IF hits = {} THEN path
       ELSE From(path, (CHOOSE i \in hits : \A j \in hits : i <= j) + 4)

\* normalizeImagePath, lines 157-177
normalizeImagePath(imageUrl) ==
    LET slashed == ReplaceChar(stripAtFsPrefix(stripQueryParams(imageUrl)), "\\", "/")
    IN IF startsWith(slashed, "/") THEN From(slashed, 2) ELSE slashed

DriveLetters == "ABCDEFGHIJKLMNOPQRSTUVWXYZabcdefghijklmnopqrstuvwxyz"

\* isWindowsAbsolutePath, lines 182-185
isWindowsAbsolutePath(path) ==
    /\ Len(path) >= 3
    /\ includes(DriveLetters, CharAt(path, 1))
    /\ CharAt(path, 2) = ":"
    /\ CharAt(path, 3) \in {"/", "\\"}

ProjectRoot == "/app"

\* path.join of a directory and a relative path without dot segments
join(dir, path) == IF path = "" THEN dir ELSE dir \o "/" \o path

\* tryLocalFilePaths, lines 191-234: <<the path that exists>> or <<>>;
\* path.normalize leaves the drive paths used as they are
tryLocalFilePaths(files, normalizedPath) ==
    IF isWindowsAbsolutePath(normalizedPath)
    THEN IF normalizedPath \in DOMAIN files THEN <<normalizedPath>> ELSE <<>>
    ELSE LET directPath == join(ProjectRoot, normalizedPath)
             publicPath == join(join(ProjectRoot, "public"), normalizedPath)
             rootPath == join(ProjectRoot, normalizedPath)
         IN IF directPath \in DOMAIN files THEN <<directPath>>
            ELSE IF publicPath \in DOMAIN files THEN <<publicPath>>
            ELSE IF rootPath \in DOMAIN files THEN <<rootPath>>
            ELSE <<>>

\* a response to the fetch of an image: the status and the body, an image
\* buffer or one whose download breaks off
ImageResponse(status, body) == [kind |-> "response", status |-> status, body |-> body]

BodyFailure == [exif |-> "body failure"]

\* fetch rejects a url that is not absolute before any request is made
isAbsoluteUrl(url) == startsWith(url, "http://") \/ startsWith(url, "https://")

\* fetchImageMetadata, lines 240-278: what reaches the caller, the local
\* file consulted, the requests made
fetchImageMetadata(imageUrl, ssr, files, remote) ==
    IF ssr = <<>> \/ ~ssr[1]
    THEN [outcome |-> Value(<<>>), filePath |-> <<>>, requests |-> <<>>]
    ELSE LET normalizedPath == normalizeImagePath(imageUrl)
             filePath == IF ~startsWith(imageUrl, "http")
                         THEN tryLocalFilePaths(files, normalizedPath) ELSE <<>>
         IN IF filePath # <<>>
            THEN [outcome |-> Caught(readImageMetadataFromFile(files, filePath[1]), <<>>),
                  filePath |-> filePath, requests |-> <<>>]
            ELSE [outcome |->
                     Caught(IF ~isAbsoluteUrl(imageUrl) \/ remote = NetworkFailure
                            THEN Thrown
                            ELSE IF ~ok(remote) THEN Value(<<>>)
                            ELSE IF remote.body = BodyFailure THEN Thrown
                            ELSE readMetadataWithSharp(remote.body),
                            <<>>),
                  filePath |-> <<>>,
                  requests |-> IF isAbsoluteUrl(imageUrl) THEN <<Get(imageUrl)>>
                               ELSE <<>>]

(***************************************************************************)
(* SpecExif: one call of fetchImageMetadata                                *)
(***************************************************************************)
Whole == "eyJ0aXRsZSI6IlQifQ=="

\* image buffers: every payload as the tag's description, one padded with
\* white space, one given as bytes only, and images without a payload
Images ==
    {NotAnImage, Tagged(<<>>),
     Tagged(<<UserCommentTag(<<"">>, <<>>)>>),
     Tagged(<<UserCommentTag(<<>>, <<EncodingHeader>>)>>),
     Tagged(<<UserCommentTag(<<>>, <<EncodingHeader \o Whole>>)>>),
     Tagged(<<UserCommentTag(<<"  " \o Whole \o "\n">>, <<>>)>>)}
        \cup {Tagged(<<UserCommentTag(<<d>>, <<>>)>>) : d \in DOMAIN Base64Decoded}

MetadataUrls ==
    {"https://cdn/a.png", "/images/a.png?v=1", "/@fs/F:/img/a.png", "F:\\img\\a.png",
     "not-a-valid-url", "http-art/a.png", ""}

LocalPaths == {"/app/images/a.png", "/app/public/images/a.png", "F:/img/a.png"}

\* the project root is a directory: it exists and cannot be read as a file
Directory == [n \in {ProjectRoot} |-> Unreadable]

FileSystems ==
    {Directory}
        \cup {[n \in {ProjectRoot, path} |-> IF n = path THEN state ELSE Unreadable] :
                 path \in LocalPaths, state \in Images \cup {Unreadable}}

Remotes ==
    {NetworkFailure, ImageResponse(404, Tagged(<<UserCommentTag(<<Whole>>, <<>>)>>)),
     ImageResponse(500, NotAnImage), ImageResponse(200, BodyFailure)}
        \cup {ImageResponse(200, image) : image \in Images}

SsrValues == {<<>>, <<FALSE>>, <<TRUE>>}

InitExif == CacheIdle /\ HashIdle /\ KeyIdle /\ PageIdle

FetchImageMetadata(imageUrl, ssr, files, remote) ==
    /\ lastOp = NoOp
    /\ LET call == fetchImageMetadata(imageUrl, ssr, files, remote)
       IN lastOp' = [op |-> "fetchImageMetadata", imageUrl |-> imageUrl, ssr |-> ssr,
                     files |-> files, remote |-> remote,
                     filePath |-> call.filePath, requests |-> call.requests,
                     threw |-> call.outcome.threw,
                     result |-> IF call.outcome.threw THEN <<>>
                                ELSE call.outcome.value]
    /\ UNCHANGED quietVars

NextExif ==
    \E imageUrl \in MetadataUrls, ssr \in SsrValues, files \in FileSystems,
       remote \in Remotes :
        FetchImageMetadata(imageUrl, ssr, files, remote)

SpecExif == InitExif /\ [][NextExif]_vars


(***************************************************************************)
(* SpecContent: one call of hasMetadataContent                             *)
(***************************************************************************)
\* a title counted as content
hasMetadataContentCountsTitle(metadata) ==
    /\ metadata # <<>>
    /\ \/ IsTruthyString(metadata[1].title)
       \/ IsTruthyString(metadata[1].description)
       \/ IsTruthyString(metadata[1].author)
       \/ IsNonEmptyList(metadata[1].sources)

\* hasMetadataContent, lines 283-294
hasMetadataContent(metadata) ==
    /\ metadata # <<>>
    /\ \/ IsTruthyString(metadata[1].description)
       \/ IsTruthyString(metadata[1].author)
       \/ IsNonEmptyList(metadata[1].sources)

Titles == {<<>>, <<"">>, <<"T">>}

\* absent, empty, blank and filled strings; absent, empty and filled lists
ContentInputs ==
    {<<>>}
        \cup {<<MetadataInfo(title, description, author, sources)>> :
                 title \in Titles,
                 description \in {<<>>, <<"">>, <<" ">>, <<"d">>},
                 author \in {<<>>, <<"">>, <<" ">>, <<"someone">>},
                 sources \in {<<>>, <<<<>>>>, <<<<"">>>>, <<<<"https://post/1">>>>}}

InitContent == CacheIdle /\ HashIdle /\ KeyIdle /\ PageIdle

HasMetadataContent(metadata) ==
    /\ lastOp = NoOp
    /\ lastOp' = [op |-> "hasMetadataContent", metadata |-> metadata,
                  result |-> hasMetadataContent(metadata)]
    /\ UNCHANGED quietVars

NextContent == \E metadata \in ContentInputs : HasMetadataContent(metadata)

SpecContent == InitContent /\ [][NextContent]_vars

(***************************************************************************)
(* Properties of the embedded metadata                                     *)
(***************************************************************************)
\* the buffer the last fetchImageMetadata decoded, if it got one
Consulted ==
    IF lastOp.filePath # <<>>
    THEN IF lastOp.files[lastOp.filePath[1]] = Unreadable THEN <<>>
         ELSE <<lastOp.files[lastOp.filePath[1]]>>
    ELSE IF /\ lastOp.requests # <<>>
            /\ lastOp.remote # NetworkFailure
            /\ lastOp.remote.status \in 200..299
            /\ lastOp.remote.body # BodyFailure
    THEN <<lastOp.remote.body>>
    ELSE <<>>

\* buffers whose EXIF block, base64 text or JSON text is malformed
MalformedImages ==
    {NotAnImage, Tagged(<<UserCommentTag(<<"%%%">>, <<>>)>>),
     Tagged(<<UserCommentTag(<<"eyJ0aXRsZSI6">>, <<>>)>>)}

HasAnyField(m) ==
    \/ m.title \notin {<<>>, <<"">>}
    \/ m.description \notin {<<>>, <<"">>}
    \/ m.author \notin {<<>>, <<"">>}
    \/ (m.sources # <<>> /\ m.sources[1] # <<>>)

\* C17: fetchImageMetadata never throws.  It resolves to null when the
\* local file it found cannot be read, when the request it made failed or
\* was answered with a status outside 200..299, and when the buffer it got
\* has a malformed EXIF block, base64 text or JSON text; when it resolves
\* to a record, the record has a non-empty title, description or author or
\* a non-empty sources list.
C17_FetchImageMetadataNeverThrows ==
    lastOp.op = "fetchImageMetadata" =>
        /\ ~lastOp.threw
        /\ (lastOp.filePath # <<>> /\ lastOp.files[lastOp.filePath[1]] = Unreadable)
              => lastOp.result = <<>>
        /\ (lastOp.requests # <<>>
              /\ (lastOp.remote = NetworkFailure \/ lastOp.remote.status \notin 200..299))
              => lastOp.result = <<>>
        /\ (Consulted # <<>> /\ Consulted[1] \in MalformedImages)
              => lastOp.result = <<>>
        /\ lastOp.result # <<>> => HasAnyField(lastOp.result[1])

\* a request answered 404 with an image that carries a title resolved to
\* null
C17_Witness ==
    /\ lastOp.op = "fetchImageMetadata"
    /\ lastOp.requests # <<>>
    /\ lastOp.remote # NetworkFailure
    /\ lastOp.remote.status = 404
    /\ readMetadataWithSharp(lastOp.remote.body).value # <<>>
    /\ ~lastOp.threw
    /\ lastOp.result = <<>>


\* C18: hasMetadataContent(m) is true exactly when m is not null and has a
\* non-empty description, a non-empty author or a sources list with at
\* least one element; giving m any other title, or none, does not change
\* the answer.
C18_ContentIgnoresTitle ==
    lastOp.op = "hasMetadataContent" =>
        LET m == lastOp.metadata
        IN /\ lastOp.result <=>
                 /\ m # <<>>
                 /\ \/ (m[1].description # <<>> /\ Len(m[1].description[1]) > 0)
                    \/ (m[1].author # <<>> /\ Len(m[1].author[1]) > 0)
                    \/ (m[1].sources # <<>> /\ Len(m[1].sources[1]) >= 1)
           /\ m # <<>> =>
                 \A title \in Titles :
                    hasMetadataContent(<<[m[1] EXCEPT !.title = title]>>) = lastOp.result

\* a record with a title and nothing else was found to have no content
C18_Witness ==
    /\ lastOp.op = "hasMetadataContent"
    /\ lastOp.metadata = <<TitleOnly>>
    /\ lastOp.result = FALSE


(***************************************************************************)
(* Age gate: the confirmation in localStorage (utils/age-gate) and the     *)
(* overlay component (components/age-gate.tsx)                             *)
(***************************************************************************)
AGE_GATE_STORAGE_KEY == "splurt_age_confirmed"

StorageModes == {"ok", "quota", "denied"}

\* localStorage.getItem: null (<<>>) or <<the string stored>>
getItem(storage, mode, key) ==
    IF mode = "denied" THEN Thrown
    ELSE Value(IF key \in DOMAIN storage THEN <<storage[key]>> ELSE <<>>)

\* localStorage.setItem: the outcome and the storage it leaves
setItem(storage, mode, key, value) ==
    IF mode \in {"quota", "denied"} THEN [outcome |-> Thrown, storage |-> storage]
    ELSE [outcome |-> Value(TRUE),
          storage |-> [k \in DOMAIN storage \cup {key} |->
                          IF k = key THEN value ELSE storage[k]]]

removeItem(storage, mode, key) ==
    IF mode = "denied" THEN [outcome |-> Thrown, storage |-> storage]
    ELSE [outcome |-> Value(TRUE), storage |-> [k \in DOMAIN storage \ {key} |-> storage[k]]]

\* any stored value taken for a confirmation
getAgeConfirmationStatusAnyValue(hasWindow, storage, mode) ==
    IF ~hasWindow THEN Value(FALSE)
    ELSE LET item == getItem(storage, mode, AGE_GATE_STORAGE_KEY)
         IN Caught(IF item.threw THEN Thrown ELSE Value(item.value # <<>>), FALSE)

\* getAgeConfirmationStatus, lines 481-490
getAgeConfirmationStatus(hasWindow, storage, mode) ==
    IF ~hasWindow THEN Value(FALSE)
    ELSE LET item == getItem(storage, mode, AGE_GATE_STORAGE_KEY)
         IN Caught(IF item.threw THEN Thrown ELSE Value(item.value = <<"true">>), FALSE)

\* the confirmation written as "yes"
setAgeConfirmationStatusWritesYes(value, hasWindow, storage, mode) ==
    IF ~hasWindow THEN [outcome |-> Value(FALSE), storage |-> storage]
    ELSE LET written == IF value
                        THEN setItem(storage, mode, AGE_GATE_STORAGE_KEY, "yes")
                        ELSE removeItem(storage, mode, AGE_GATE_STORAGE_KEY)
         IN [outcome |-> Caught(written.outcome, FALSE), storage |-> written.storage]

\* setAgeConfirmationStatus, lines 497-511: the outcome and the storage
setAgeConfirmationStatus(value, hasWindow, storage, mode) ==
    IF ~hasWindow THEN [outcome |-> Value(FALSE), storage |-> storage]
    ELSE LET written == IF value
                        THEN setItem(storage, mode, AGE_GATE_STORAGE_KEY, "true")
                        ELSE removeItem(storage, mode, AGE_GATE_STORAGE_KEY)
         IN [outcome |-> Caught(written.outcome, FALSE), storage |-> written.storage]

\* AgeGate, onMount: the signals after the callback
onMount(showSignal, storage, mode) ==
    LET confirmed == getAgeConfirmationStatus(TRUE, storage, mode)
    IN [threw |-> confirmed.threw, mounted |-> TRUE,
        show |-> IF ~confirmed.threw /\ ~confirmed.value THEN TRUE ELSE showSignal]

\* the overlay left up when the confirmation could not be written
handleContinueIfWritten(showSignal, storage, mode) ==
    LET written == setAgeConfirmationStatus(TRUE, TRUE, storage, mode)
    IN [threw |-> written.outcome.threw, storage |-> written.storage,
        show |-> IF written.outcome.threw \/ ~written.outcome.value
                 THEN showSignal ELSE FALSE]

\* AgeGate, handleContinue: the click handler of the Continue button
handleContinue(showSignal, storage, mode) ==
    LET written == setAgeConfirmationStatus(TRUE, TRUE, storage, mode)
    IN [threw |-> written.outcome.threw, storage |-> written.storage,
        show |-> IF written.outcome.threw THEN showSignal ELSE FALSE]

\* <Show when={mounted() && show()}>
OverlayVisible == mounted /\ show

(***************************************************************************)
(* SpecAgeGate: a browser with some storage, a page with the age gate      *)
(***************************************************************************)
Stored(value) == [k \in {AGE_GATE_STORAGE_KEY} |-> value]

\* what earlier visits and other scripts may have left under the key
InitialStorages == {EmptyDir, Stored("true"), Stored("false"), Stored("TRUE"), Stored("")}

InitAgeGate ==
    /\ localStorage \in InitialStorages
    /\ storageMode \in StorageModes
    /\ show = FALSE
    /\ mounted = FALSE
    /\ inFlight = <<>>
    /\ disk = EmptyDir
    /\ musicPlayer = <<>>
    /\ CacheIdle /\ HashIdle /\ KeyIdle

restVars ==
    <<imageCacheDir, metadataCacheDir, savedImages, everSavedMetadata, savedMetadata,
      hashArgs, hashResults, keyArgs, keyResults, inFlight, disk, musicPlayer>>

GetAgeConfirmationStatus(hasWindow) ==
    /\ LET status == getAgeConfirmationStatus(hasWindow, localStorage, storageMode)
       IN lastOp' = [op |-> "getAgeConfirmationStatus", hasWindow |-> hasWindow,
                     threw |-> status.threw,
                     result |-> IF status.threw THEN <<>> ELSE status.value]
    /\ UNCHANGED <<restVars, pageVars>>

SetAgeConfirmationStatus(value, hasWindow) ==
    /\ LET call == setAgeConfirmationStatus(value, hasWindow, localStorage, storageMode)
       IN /\ localStorage' = call.storage
          /\ lastOp' = [op |-> "setAgeConfirmationStatus", value |-> value,
                        hasWindow |-> hasWindow, before |-> localStorage,
                        threw |-> call.outcome.threw,
                        result |-> IF call.outcome.threw THEN <<>>
                                   ELSE call.outcome.value]
    /\ UNCHANGED <<restVars, storageMode, show, mounted>>

\* the component is constructed with both signals false; onMount runs once
OnMount ==
    /\ ~mounted
    /\ LET after == onMount(show, localStorage, storageMode)
       IN /\ mounted' = after.mounted
          /\ show' = after.show
          /\ lastOp' = [op |-> "onMount", threw |-> after.threw,
                        closed |-> IF lastOp.op = "reload" THEN lastOp.closed
                                   ELSE "none"]
    /\ UNCHANGED <<restVars, localStorage, storageMode>>

\* the button exists while the overlay is rendered
HandleContinue ==
    /\ OverlayVisible
    /\ LET after == handleContinue(show, localStorage, storageMode)
       IN /\ show' = after.show
          /\ localStorage' = after.storage
          /\ lastOp' = [op |-> "handleContinue", threw |-> after.threw,
                        before |-> localStorage]
    /\ UNCHANGED <<restVars, storageMode, mounted>>

\* leaving the page and loading it again constructs the component anew;
\* closed is the last thing that happened on the page left
Reload ==
    /\ mounted
    /\ mounted' = FALSE
    /\ show' = FALSE
    /\ lastOp' = [op |-> "reload", closed |-> lastOp.op]
    /\ UNCHANGED <<restVars, localStorage, storageMode>>

NextAgeGate ==
    \/ \E hasWindow \in BOOLEAN : GetAgeConfirmationStatus(hasWindow)
    \/ \E value \in BOOLEAN, hasWindow \in BOOLEAN :
          SetAgeConfirmationStatus(value, hasWindow)
    \/ OnMount
    \/ HandleContinue
    \/ Reload

SpecAgeGate == InitAgeGate /\ [][NextAgeGate]_vars

(***************************************************************************)
(* Properties of the age gate                                              *)
(***************************************************************************)
\* the storage can be read and holds exactly "true" under the key
ConfirmationStored ==
    /\ storageMode # "denied"
    /\ AGE_GATE_STORAGE_KEY \in DOMAIN localStorage
    /\ localStorage[AGE_GATE_STORAGE_KEY] = "true"

\* what a call of getAgeConfirmationStatus in the page returns now
StatusNow == getAgeConfirmationStatus(TRUE, localStorage, storageMode)

\* C19: in a page, getAgeConfirmationStatus returns true exactly when the
\* value stored under the key is the string "true"; right after a
\* setAgeConfirmationStatus(true) that returned true it returns true, right
\* after a setAgeConfirmationStatus(false) it returns false; when the
\* storage throws, get returns false and set returns false, and neither
\* throws.
C19_AgeConfirmationStatus ==
    /\ lastOp.op = "getAgeConfirmationStatus" =>
          /\ ~lastOp.threw
          /\ (lastOp.hasWindow /\ storageMode # "denied") =>
                (lastOp.result <=>
                    /\ AGE_GATE_STORAGE_KEY \in DOMAIN localStorage
                    /\ localStorage[AGE_GATE_STORAGE_KEY] = "true")
          /\ storageMode = "denied" => lastOp.result = FALSE
    /\ (lastOp.op = "setAgeConfirmationStatus" /\ lastOp.hasWindow) =>
          /\ ~lastOp.threw
          /\ (lastOp.value /\ lastOp.result) => (~StatusNow.threw /\ StatusNow.value)
          /\ ~lastOp.value => (~StatusNow.threw /\ ~StatusNow.value)
          /\ (storageMode = "denied" \/ (lastOp.value /\ storageMode = "quota"))
                => lastOp.result = FALSE

\* removing the confirmation failed on a storage that throws, with "true"
\* stored: the call returned false and the status reads false
C19_Witness ==
    /\ lastOp.op = "setAgeConfirmationStatus"
    /\ lastOp.hasWindow
    /\ ~lastOp.value
    /\ lastOp.result = FALSE
    /\ storageMode = "denied"
    /\ localStorage = Stored("true")
    /\ ~StatusNow.value

\* C20: once the page has loaded and the component has mounted, the overlay
\* is shown exactly when no confirmation is stored; after a click on
\* Continue the overlay is hidden, also when the confirmation could not be
\* written.
C20_OverlayFollowsConfirmation ==
    /\ lastOp.op = "onMount" => (~lastOp.threw /\ (OverlayVisible <=> ~ConfirmationStored))
    /\ lastOp.op = "handleContinue" => (~lastOp.threw /\ ~OverlayVisible)

\* Continue was clicked on a storage whose setItem throws: nothing was
\* written and the overlay is gone
C20_Witness ==
    /\ lastOp.op = "handleContinue"
    /\ storageMode = "quota"
    /\ localStorage = lastOp.before
    /\ ~ConfirmationStored
    /\ ~OverlayVisible


\* the value "true" is under the key
Retained ==
    /\ AGE_GATE_STORAGE_KEY \in DOMAIN localStorage
    /\ localStorage[AGE_GATE_STORAGE_KEY] = "true"

\* the click on Continue whose write went through
ContinueWritten == lastOp.op = "handleContinue" /\ storageMode = "ok"

\* C21: a click on Continue whose write succeeded leaves "true" stored and
\* the overlay hidden, and from then on, through page loads and mounts, the
\* overlay stays hidden for as long as the value stays stored.
C21_ConfirmationPersists ==
    /\ [](ContinueWritten => (Retained /\ ~OverlayVisible))
    /\ [][(storageMode = "ok" /\ Retained /\ ~OverlayVisible /\ Retained')
             => ~OverlayVisible']_vars

\* the page was left after a successful Continue, loaded again and mounted:
\* the value is still stored and the overlay is not shown
C21_Witness ==
    /\ lastOp.op = "onMount"
    /\ lastOp.closed = "handleContinue"
    /\ storageMode = "ok"
    /\ Retained
    /\ mounted
    /\ ~OverlayVisible


(***************************************************************************)
(* actions/index.ts: the server actions                                    *)
(*   A call that leaves out the listing arguments passes undefined for     *)
(*   them; generateMetadataHash then throws on splashScreens.map inside    *)
(*   the callee's try.  Arguments are <<>> (left out) or <<listing>>.      *)
(***************************************************************************)
\* getCurrentMetadataHash with the listing arguments as passed
getCurrentMetadataHashOf(listingArgs) ==
    IF listingArgs = <<>> THEN Thrown
    ELSE Value(getCurrentMetadataHash(listingArgs[1].splashScreens,
                                      listingArgs[1].screenshots))

\* loadCachedMetadata, metadata-cache.ts lines 359-384, as called
loadCachedMetadataCall(dir, imageUrl, listingArgs) ==
    Caught(IF getCurrentMetadataHashOf(listingArgs).threw THEN Thrown
           ELSE Value(loadCachedMetadata(dir, imageUrl, listingArgs[1].splashScreens,
                                         listingArgs[1].screenshots)),
           Undefined).value

\* saveCachedMetadata, metadata-cache.ts lines 390-413, as called: the
\* directory it leaves
saveCachedMetadataCall(dir, imageUrl, metadata, listingArgs) ==
    IF getCurrentMetadataHashOf(listingArgs).threw THEN dir
    ELSE saveCachedMetadata(dir, imageUrl, metadata, listingArgs[1].splashScreens,
                            listingArgs[1].screenshots)

\* server.fetchImageMetadata, lines 335-372.  data is the listing
\* fetchMediaItems resolved to, <<>> when it rejected; extraction is what
\* fetchImageMetadata(imageUrl) resolves to when it runs.  Yields the
\* metadata returned, the directory left, whether the extraction ran.
fetchImageMetadataHandler(dir, imageUrl, data, extraction) ==
    IF data = <<>> THEN [metadata |-> <<>>, dir |-> dir, extracted |-> FALSE]
    ELSE LET hasCache == hasCachedMetadata(dir, imageUrl, data[1].splashScreens,
                                           data[1].screenshots)
             cachedMetadata == loadCachedMetadataCall(dir, imageUrl, <<>>)
         IN IF hasCache /\ cachedMetadata.defined
            THEN [metadata |-> cachedMetadata.value, dir |-> dir, extracted |-> FALSE]
            ELSE [metadata |-> extraction,
                  dir |-> saveCachedMetadataCall(dir, imageUrl, extraction, <<>>),
                  extracted |-> TRUE]


\* the optimization run again whatever the cache holds
optimizeMediaWithCacheAlwaysOptimizes(dir, data, optimizeOpts, optimizedData) ==
    LET metadataHash == generateMetadataHash(data.splashScreens, data.screenshots)
        cacheKey == getOptimizationCacheKey(optimizeOpts)
    IN [result |-> optimizedData,
        dir |-> saveCachedImages(dir, metadataHash, cacheKey, optimizedData),
        hasCache |-> hasCachedImagesUnder(dir, metadataHash, cacheKey, {}).value,
        optimized |-> TRUE]

\* the entry written only when hasCachedImages found none
optimizeMediaWithCacheSavesNewOnly(dir, data, optimizeOpts, optimizedData) ==
    LET metadataHash == generateMetadataHash(data.splashScreens, data.screenshots)
        cacheKey == getOptimizationCacheKey(optimizeOpts)
        hasCache == hasCachedImagesUnder(dir, metadataHash, cacheKey, {}).value
        cached == loadCachedImagesUnder(dir, metadataHash, cacheKey, data, {}).value
    IN IF hasCache /\ cached # <<>>
       THEN [result |-> cached[1], dir |-> dir, hasCache |-> hasCache,
             optimized |-> FALSE]
       ELSE [result |-> optimizedData,
             dir |-> IF hasCache THEN dir
                     ELSE saveCachedImages(dir, metadataHash, cacheKey, optimizedData),
             hasCache |-> hasCache, optimized |-> TRUE]

\* optimizeMediaWithCache, lines 156-203.  optimizedData is what the two
\* optimizeImages calls resolve to when they run.  Yields the listing
\* returned, the directory left, what hasCachedImages answered, whether the
\* optimization ran.
optimizeMediaWithCache(dir, data, optimizeOpts, optimizedData) ==
    LET metadataHash == generateMetadataHash(data.splashScreens, data.screenshots)
        cacheKey == getOptimizationCacheKey(optimizeOpts)
        hasCache == hasCachedImagesUnder(dir, metadataHash, cacheKey, {}).value
        cached == loadCachedImagesUnder(dir, metadataHash, cacheKey, data, {}).value
    IN IF hasCache /\ cached # <<>>
       THEN [result |-> cached[1], dir |-> dir, hasCache |-> hasCache,
             optimized |-> FALSE]
       ELSE [result |-> optimizedData,
             dir |-> saveCachedImages(dir, metadataHash, cacheKey, optimizedData),
             hasCache |-> hasCache, optimized |-> TRUE]

\* the options of a request that names none, line 264
DefaultOptimizeOptions == [width |-> <<600>>, quality |-> <<80>>, format |-> <<"webp">>]

\* input.optimizeOptions || the default
optimizeOptsOf(input) ==
    IF input.optimizeOptions = <<>> THEN DefaultOptimizeOptions
    ELSE input.optimizeOptions[1]

\* server.fetchMedia, lines 223-288.  data is the listing fetchMediaItems
\* resolved to, <<>> when validateSource or fetchMediaItems threw.
fetchMediaHandler(imageDir, metadataDir, input, data, optimizedData) ==
    IF data = <<>>
    THEN [threw |-> TRUE, result |-> <<>>, imageDir |-> imageDir,
          metadataDir |-> metadataDir, hasCache |-> FALSE, optimized |-> FALSE]
    ELSE LET swept == ensureMetadataHash(
                          invalidateMetadataCache(metadataDir, data[1].splashScreens,
                                                  data[1].screenshots),
                          data[1].splashScreens, data[1].screenshots)
             run == optimizeMediaWithCache(imageDir, data[1], optimizeOptsOf(input),
                                           optimizedData)
         IN IF ~input.optimize
            THEN [threw |-> FALSE, result |-> <<data[1]>>, imageDir |-> imageDir,
                  metadataDir |-> swept, hasCache |-> FALSE, optimized |-> FALSE]
            ELSE [threw |-> FALSE, result |-> <<run.result>>, imageDir |-> run.dir,
                  metadataDir |-> swept, hasCache |-> run.hasCache,
                  optimized |-> run.optimized]

(***************************************************************************)
(* SpecActions: requests to the two server actions, one whole request per  *)
(* step, against cache directories an earlier run of the site has left     *)
(***************************************************************************)
\* the listing the source serves at a request: fetchMediaItems reads it anew
SourceListings == {<<>>} \cup {<<l>> : l \in Listings}

\* the input of a fetchMedia request
MediaInputs ==
    {[optimize |-> b, optimizeOptions |-> o] :
        b \in BOOLEAN, o \in {<<>>} \cup {<<c>> : c \in CacheOptions}}

\* an entry of the first listing under the default options, cut short on disk
DamagedEntry ==
    getCacheFilePath(Fingerprint(Listing(<<ItemA>>, <<ItemB>>)),
                     getOptimizationCacheKey(NoOptions)) :> Corrupt

\* a metadata entry of the first listing saved with the listing at hand
LeftMetadataEntry ==
    saveCachedMetadata(EmptyDir, UrlA, <<FullInfo>>, <<ItemA>>, <<ItemB>>)

InitActions ==
    /\ imageCacheDir \in {EmptyDir, DamagedEntry}
    /\ metadataCacheDir \in OldLayoutDirs \cup {LeftMetadataEntry}
    /\ savedImages = EmptyDir
    /\ everSavedMetadata = {}
    /\ savedMetadata = EmptyDir
    /\ lastOp = NoOp
    /\ HashIdle
    /\ KeyIdle
    /\ PageIdle

\* the entry files the optimization cache may come to hold
MaxCached == 1

actionVars == <<savedImages, everSavedMetadata, savedMetadata, pureVars>>

ServerFetchMedia(input, data, optimizedData) ==
    LET call == fetchMediaHandler(imageCacheDir, metadataCacheDir, input, data,
                                  optimizedData)
    IN /\ Cardinality(DOMAIN call.imageDir) <= MaxCached
       /\ imageCacheDir' = call.imageDir
       /\ metadataCacheDir' = call.metadataDir
       /\ lastOp' = [op |-> "fetchMedia", input |-> input, data |-> data,
                     threw |-> call.threw, result |-> call.result,
                     hasCache |-> call.hasCache, optimized |-> call.optimized]
       /\ UNCHANGED actionVars

ServerFetchImageMetadata(imageUrl, data, extraction) ==
    LET call == fetchImageMetadataHandler(metadataCacheDir, imageUrl, data, extraction)
    IN /\ metadataCacheDir' = call.dir
       /\ lastOp' = [op |-> "fetchImageMetadata", imageUrl |-> imageUrl,
                     data |-> data, metadata |-> call.metadata,
                     extracted |-> call.extracted]
       /\ UNCHANGED <<imageCacheDir, actionVars>>

NextActions ==
    \/ \E input \in MediaInputs, data \in SourceListings :
          \E optimizedData \in IF data = <<>> \/ ~input.optimize THEN {<<>>}
                               ELSE OptimizedListings(data[1], optimizeOptsOf(input)) :
             ServerFetchMedia(input, data, optimizedData)
    \/ \E imageUrl \in ImageUrls, data \in SourceListings,
          extraction \in MetadataValues :
             ServerFetchImageMetadata(imageUrl, data, extraction)

SpecActions == InitActions /\ [][NextActions]_vars


(***************************************************************************)
(* Properties of the server actions                                        *)
(***************************************************************************)
\* a fetchImageMetadata request that follows one for the same image url
\* under a listing of the same fingerprint
SameImageAgain ==
    /\ lastOp.op = "fetchImageMetadata" /\ lastOp.data # <<>>
    /\ lastOp'.op = "fetchImageMetadata" /\ lastOp'.data # <<>>
    /\ Fingerprint(lastOp'.data[1]) = Fingerprint(lastOp.data[1])
    /\ lastOp'.imageUrl = lastOp.imageUrl

\* C22: once a fetchImageMetadata request has resolved an image's metadata,
\* record or null, the next request for the same image url under the same
\* fingerprint returns that result from the cache and runs no extraction.
C22_NegativeCaching ==
    [][SameImageAgain =>
          (~lastOp'.extracted /\ lastOp'.metadata = lastOp.metadata)]_vars


\* the entry files of the optimization cache keyed by another fingerprint
StaleEntries(dir, metadataHash) ==
    {file \in EntryFiles(dir) : ~startsWith(file, metadataHash \o "-")}

\* C23: after a hasCachedImages, loadCachedImages or saveCachedImages call
\* made with fingerprint F completes, the optimization cache directory holds
\* no entry file keyed by a fingerprint other than F.
C23_FingerprintAwareCallsPrune ==
    lastOp.op \in {"hasCachedImages", "loadCachedImages", "saveCachedImages"}
        => StaleEntries(imageCacheDir, lastOp.metadataHash) = {}


(***************************************************************************)
(* SpecRace: saveCachedImages calls for one key running concurrently       *)
(*   Here the entry file is the text on disk.  writeFile(path, data) opens *)
(*   the file for writing, which creates or empties it, writes data from   *)
(*   offset 0 through its own descriptor, and closes; calls in flight      *)
(*   interleave between these steps.  readFile reads the text as it is.    *)
(***************************************************************************)
\* most saveCachedImages calls of one race
MaxWriters == 2

\* JSON.stringify(mappings, null, 2) of one category, nested in the entry
stringifyMappings(mappings) ==
    LET one(m) == "    {\n      \"originalUrl\": \"" \o m.originalUrl
                  \o "\",\n      \"optimizedUrl\": \"" \o m.optimizedUrl \o "\"\n    }"
        list[i \in 0..Len(mappings)] ==
            IF i = 0 THEN ""
            ELSE list[i - 1] \o (IF i = 1 THEN "" ELSE ",\n") \o one(mappings[i])
    IN IF Len(mappings) = 0 THEN "[]"
       ELSE "[\n" \o list[Len(mappings)] \o "\n  ]"

\* JSON.stringify(metadata, null, 2), image-cache.ts line 211
stringifyEntry(metadata) ==
    "{\n  \"splashScreens\": " \o stringifyMappings(metadata.splashScreens)
    \o ",\n  \"screenshots\": " \o stringifyMappings(metadata.screenshots) \o "\n}"

\* the listing and the options of the racing calls
RaceListing == Listing(<<ItemA>>, <<ItemB>>)

RacePath ==
    getCacheFilePath(Fingerprint(RaceListing), getOptimizationCacheKey(NoOptions))

\* the entry saveCachedImages builds, lines 199-208
entryOf(optimizedItems) ==
    saveCachedImages(EmptyDir, Fingerprint(RaceListing),
                     getOptimizationCacheKey(NoOptions), optimizedItems)[RacePath]

\* the entries the racing calls may hold
RaceEntries == {entryOf(o) : o \in OptimizedListings(RaceListing, NoOptions)}

\* JSON.parse of the text of the file: the text of a whole entry parses to
\* it; the empty text, and a text with the rest of a longer one behind
\* its closing brace, are rejected unless they make up a whole entry
parseEntry(text) ==
    IF \E c \in RaceEntries : stringifyEntry(c) = text
    THEN Value(CHOOSE c \in RaceEntries : stringifyEntry(c) = text)
    ELSE Thrown

\* open(path, "w"): the file created, or emptied when it exists
openForWrite(dir, path) == [n \in DOMAIN dir \cup {path} |-> IF n = path THEN "" ELSE dir[n]]

\* write(fd, data) from offset 0: bytes of the file beyond the data stay
writeFromStart(dir, path, data) ==
    LET old == dir[path]
        rest == IF Len(old) > Len(data) THEN SubSeq(old, Len(data) + 1, Len(old)) ELSE ""
    IN [dir EXCEPT ![path] = data \o rest]

\* loadCachedImages over the text on disk, lines 129-183
loadCachedImagesText(dir, originalItems) ==
    Caught(IF RacePath \notin DOMAIN dir THEN Thrown
           ELSE IF parseEntry(dir[RacePath]).threw THEN Thrown
           ELSE Value(loadCachedImages(RacePath :> parseEntry(dir[RacePath]).value,
                                       Fingerprint(RaceListing),
                                       getOptimizationCacheKey(NoOptions), originalItems)),
           <<>>).value

InitRace ==
    /\ imageCacheDir = EmptyDir
    /\ metadataCacheDir = EmptyDir
    /\ savedImages = EmptyDir
    /\ everSavedMetadata = {}
    /\ savedMetadata = EmptyDir
    /\ lastOp = NoOp
    /\ HashIdle /\ KeyIdle /\ PageIdle

raceRest ==
    <<metadataCacheDir, savedImages, everSavedMetadata, savedMetadata,
      hashArgs, hashResults, keyArgs, keyResults, pageVars, disk, musicPlayer>>

\* saveCachedImages up to its await of writeFile
StartSave(optimizedItems) ==
    /\ Len(inFlight) < MaxWriters
    /\ inFlight' = Append(inFlight, [op |-> "saveCachedImages", at |-> "open",
                                     data |-> stringifyEntry(entryOf(optimizedItems))])
    /\ lastOp' = [op |-> "startSave"]
    /\ UNCHANGED <<imageCacheDir, raceRest>>

OpenEntryFile(i) ==
    /\ inFlight[i].at = "open"
    /\ imageCacheDir' = openForWrite(imageCacheDir, RacePath)
    /\ inFlight' = [inFlight EXCEPT ![i].at = "write"]
    /\ lastOp' = [op |-> "open", call |-> i]
    /\ UNCHANGED raceRest

WriteEntryFile(i) ==
    /\ inFlight[i].at = "write"
    /\ imageCacheDir' = writeFromStart(imageCacheDir, RacePath, inFlight[i].data)
    /\ inFlight' = [inFlight EXCEPT ![i].at = "done"]
    /\ lastOp' = [op |-> "write", call |-> i]
    /\ UNCHANGED raceRest

LoadDuringRace ==
    /\ lastOp' = [op |-> "loadCachedImages",
                  result |-> loadCachedImagesText(imageCacheDir, RaceListing)]
    /\ UNCHANGED <<imageCacheDir, inFlight, raceRest>>

NextRace ==
    \/ \E o \in OptimizedListings(RaceListing, NoOptions) : StartSave(o)
    \/ \E i \in 1..Len(inFlight) : OpenEntryFile(i)
    \/ \E i \in 1..Len(inFlight) : WriteEntryFile(i)
    \/ LoadDuringRace

SpecRace == InitRace /\ [][NextRace]_vars

\* every call of the race has settled
AllSettled == Len(inFlight) >= 2 /\ \A i \in 1..Len(inFlight) : inFlight[i].at = "done"

\* what a load returns from the whole entry one of the calls wrote
WholeLoads ==
    {loadCachedImagesText(RacePath :> inFlight[i].data, RaceListing) :
        i \in 1..Len(inFlight)}

\* C24: when saveCachedImages calls for one key run concurrently, after all
\* have finished the entry file holds exactly the complete content written
\* by one of them, and a load during or after the race returns a miss or
\* the complete content of one single save.
C24_LastWriteWins ==
    /\ AllSettled =>
          \E i \in 1..Len(inFlight) : imageCacheDir[RacePath] = inFlight[i].data
    /\ lastOp.op = "loadCachedImages" =>
          (lastOp.result = <<>> \/ lastOp.result \in WholeLoads)


(***************************************************************************)
(* SpecBatches: one optimizeImages invocation, lines 116-151               *)
(*   inFlight holds the optimizeImage calls of the batch being awaited;    *)
(*   lastOp holds the invocation: its arguments, the loop index i, the     *)
(*   items pushed so far, the calls started and completed so far, and the  *)
(*   list returned, <<>> until the function returns.                       *)
(***************************************************************************)
\* longest list handed to optimizeImages
MaxItems == 6

\* the first n items of a source
BatchItems(n) ==
    [k \in 1..n |-> MediaItem("https://cdn/" \o ToString(k) \o ".png",
                              ToString(k) \o ".png", <<>>, <<>>)]

BatchOptions ==
    {[width |-> <<>>, quality |-> <<>>, format |-> <<>>, maxConcurrent |-> m] :
        m \in {<<>>, <<0>>, <<1>>, <<2>>}}

\* options.maxConcurrent || 5, line 125
maxConcurrentOf(options) == OrNumber(options.maxConcurrent, 5)

\* the whole rest of the list taken as one batch
batchAtUnsliced(items, i, maxConcurrent) ==
    [k \in 1..(Len(items) - i) |-> [index |-> i + k, settled |-> FALSE, url |-> <<>>]]

\* items.slice(i, i + maxConcurrent).map(async ...), lines 130-144: the
\* calls the batch at loop index i starts
batchAt(items, i, maxConcurrent) ==
    LET last == IF i + maxConcurrent < Len(items) THEN i + maxConcurrent ELSE Len(items)
    IN [k \in 1..(last - i) |-> [index |-> i + k, settled |-> FALSE, url |-> <<>>]]

\* the object a settled call resolves to, lines 139-143
batchResult(items, call) ==
    [items[call.index] EXCEPT !.url = call.url[1],
                              !.originalUrl = <<items[call.index].url>>]

StartedBy(calls) == {calls[k].index : k \in 1..Len(calls)}

InitBatches == CacheIdle /\ HashIdle /\ KeyIdle /\ PageIdle

\* the call of optimizeImages up to its first await
OptimizeImages(items, options) ==
    LET maxConcurrent == maxConcurrentOf(options)
        batch == batchAt(items, 0, maxConcurrent)
    IN /\ lastOp = NoOp
       /\ inFlight' = batch
       /\ lastOp' = [op |-> "optimizeImages", items |-> items, options |-> options,
                     maxConcurrent |-> maxConcurrent, i |-> 0,
                     optimizedItems |-> <<>>, started |-> StartedBy(batch),
                     completed |-> {},
                     returned |-> IF Len(items) = 0 THEN <<<<>>>> ELSE <<>>]
       /\ UNCHANGED <<imageCacheDir, raceRest>>

\* one optimizeImage call settles: with the optimized src, or with the url
\* itself when the optimization failed (lines 77-111)
OptimizeImageSettles(k, succeeded) ==
    /\ lastOp.op = "optimizeImages"
    /\ k \in 1..Len(inFlight)
    /\ ~inFlight[k].settled
    /\ LET item == lastOp.items[inFlight[k].index]
       IN inFlight' = [inFlight EXCEPT
                          ![k].settled = TRUE,
                          ![k].url = <<OptimizedItem(item, lastOp.options, succeeded).url>>]
    /\ lastOp' = [lastOp EXCEPT !.completed = @ \cup {inFlight[k].index}]
    /\ UNCHANGED <<imageCacheDir, raceRest>>

\* Promise.all(batchPromises) resolves: the results are pushed in the order
\* of the batch and the loop goes on, or the function returns
BatchSettles ==
    /\ lastOp.op = "optimizeImages"
    /\ Len(inFlight) > 0
    /\ \A k \in 1..Len(inFlight) : inFlight[k].settled
    /\ LET i == lastOp.i + lastOp.maxConcurrent
           optimizedItems ==
               lastOp.optimizedItems
               \o [k \in 1..Len(inFlight) |-> batchResult(lastOp.items, inFlight[k])]
           batch == IF i < Len(lastOp.items)
                    THEN batchAt(lastOp.items, i, lastOp.maxConcurrent) ELSE <<>>
       IN /\ inFlight' = batch
          /\ lastOp' = [lastOp EXCEPT
                           !.i = i, !.optimizedItems = optimizedItems,
                           !.started = @ \cup StartedBy(batch),
                           !.returned = IF i < Len(lastOp.items) THEN <<>>
                                        ELSE <<optimizedItems>>]
    /\ UNCHANGED <<imageCacheDir, raceRest>>

NextBatches ==
    \/ \E n \in 0..MaxItems, options \in BatchOptions :
          OptimizeImages(BatchItems(n), options)
    \/ \E k \in 1..MaxItems, succeeded \in BOOLEAN : OptimizeImageSettles(k, succeeded)
    \/ BatchSettles

SpecBatches == InitBatches /\ [][NextBatches]_vars

\* the batch an item belongs to, counted from 0
BatchOf(index, maxConcurrent) == (index - 1) \div maxConcurrent

\* the calls started and not completed
Pending == lastOp.started \ lastOp.completed

\* C25: within one optimizeImages invocation no call of a batch starts before
\* every call of the batch before it has completed, at most maxConcurrent
\* calls are in flight, and the list returned has the length and the order
\* of the input, each item with originalUrl equal to its input url.
C25_BatchesRunInTurn ==
    lastOp.op = "optimizeImages" =>
        /\ Cardinality(Pending) <= lastOp.maxConcurrent
        /\ \A j \in lastOp.started : \A h \in 1..Len(lastOp.items) :
              BatchOf(h, lastOp.maxConcurrent) < BatchOf(j, lastOp.maxConcurrent)
                  => h \in lastOp.completed
        /\ lastOp.returned # <<>> =>
              /\ Len(lastOp.returned[1]) = Len(lastOp.items)
              /\ \A k \in 1..Len(lastOp.items) :
                    /\ lastOp.returned[1][k].originalUrl = <<lastOp.items[k].url>>
                    /\ lastOp.returned[1][k].name = lastOp.items[k].name

\* a list longer than the default batch, returned after two batches of
\* which one call failed
C25_Witness ==
    /\ lastOp.op = "optimizeImages"
    /\ lastOp.options.maxConcurrent = <<>>
    /\ Len(lastOp.items) > lastOp.maxConcurrent
    /\ lastOp.returned # <<>>
    /\ lastOp.returned[1][1].url = lastOp.items[1].url
    /\ lastOp.returned[1][Len(lastOp.items)].url # lastOp.items[Len(lastOp.items)].url


(***************************************************************************)
(* The order of the list a source lister returns                           *)
(***************************************************************************)
\* a.lastModified is truthy
CarriesLastModified(item) == item.lastModified \notin {<<>>, <<"">>}

\* the documented rule for the items at positions i and j of a list: of two
\* items that both carry lastModified the later comes first, of two others
\* the one with the smaller name
OrderedByRule(list, i, j) ==
    IF CarriesLastModified(list[i]) /\ CarriesLastModified(list[j])
    THEN Timestamps[list[i].lastModified[1]] > Timestamps[list[j].lastModified[1]]
            => i < j
    ELSE localeCompare(list[i].name, list[j].name) < 0 => i < j

ListerReturned ==
    /\ lastOp.op \in {"fetchImagesFromUrl", "fetchImagesFromFolder"}
    /\ ~lastOp.threw

SortedItems ==
    IF lastOp.op = "fetchImagesFromUrl"
    THEN filterByPatterns(parseDirectoryListing(lastOp.response.html, lastOp.baseUrl,
                                                lastOp.hasDOMParser).items,
                          lastOp.patterns)
    ELSE readEntries(lastOp.folder.entries, lastOp.folderPath, lastOp.patterns).items

\* every sorted item carries lastModified, or none does
UniformlyDated ==
    \/ \A k \in 1..Len(SortedItems) : CarriesLastModified(SortedItems[k])
    \/ \A k \in 1..Len(SortedItems) : ~CarriesLastModified(SortedItems[k])

CACHE_DIR == ".astro/image-cache"

METADATA_CACHE_DIR == ".astro/metadata-cache"

DirectoryNode == [directory |-> TRUE]

\* the path and every directory above it, below the root of the tree
PathsTo(path) ==
    {SubSeq(path, 1, k) : k \in {n \in 2..Len(path) :
                                    n = Len(path) \/ CharAt(path, n + 1) = "/"}}

\* mkdir(path, {recursive: true})
mkdirRecursive(tree, path) ==
    [p \in DOMAIN tree \cup PathsTo(path) |->
        IF p \in DOMAIN tree THEN tree[p] ELSE DirectoryNode]

\* the metadata cache put into the directory of the optimization cache
metadataCachePathShared(projectRoot) == join(projectRoot, CACHE_DIR)

\* cachePath of metadata-cache.ts, line 295
metadataCachePath(projectRoot) == join(projectRoot, METADATA_CACHE_DIR)

\* cachePath of image-cache.ts, line 91
imageCachePath(projectRoot) == join(projectRoot, CACHE_DIR)

\* the files directly named under a directory: name -> content
filesOf(tree, dirPath) ==
    LET paths == {p \in DOMAIN tree : startsWith(p, dirPath \o "/") /\ tree[p] # DirectoryNode}
    IN [name \in {From(p, Len(dirPath) + 2) : p \in paths} |-> tree[join(dirPath, name)]]

\* the tree with the files of a directory replaced
withFiles(tree, dirPath, files) ==
    LET others == {p \in DOMAIN tree :
                      ~(startsWith(p, dirPath \o "/") /\ tree[p] # DirectoryNode)}
        named == {join(dirPath, name) : name \in DOMAIN files}
    IN [p \in others \cup named |->
          IF p \in named THEN files[From(p, Len(dirPath) + 2)] ELSE tree[p]]

\* a cache operation on the tree: getCacheDir makes the directory, then the
\* operation reads and leaves the files of that directory
onDisk(tree, cachePath, Operation(_)) ==
    LET made == mkdirRecursive(tree, cachePath)
    IN withFiles(made, cachePath, Operation(filesOf(made, cachePath)))

ImageCacheOps ==
    {"hasCachedImages", "loadCachedImages", "saveCachedImages", "invalidateImageCache",
     "ensureImageCacheHash"}

MetadataCacheOps ==
    {"hasCachedMetadata", "loadCachedMetadata", "saveCachedMetadata",
     "invalidateMetadataCache", "ensureMetadataHash"}

\* the files an operation of the optimization cache leaves in its directory
imageCacheFilesAfter(op, dir, listing, options) ==
    CASE op = "saveCachedImages" ->
            saveCachedImages(dir, Fingerprint(listing), getOptimizationCacheKey(options),
                             Listing([i \in 1..Len(listing.splashScreens) |->
                                         OptimizedItem(listing.splashScreens[i], options, TRUE)],
                                     [i \in 1..Len(listing.screenshots) |->
                                         OptimizedItem(listing.screenshots[i], options, TRUE)]))
      [] op = "invalidateImageCache" ->
            invalidateImageCache(dir, listing.splashScreens, listing.screenshots)
      [] op = "ensureImageCacheHash" ->
            ensureImageCacheHash(dir, listing.splashScreens, listing.screenshots)
      [] OTHER -> dir

\* the files an operation of the metadata cache leaves in its directory
metadataCacheFilesAfter(op, dir, imageUrl, metadata, listing) ==
    CASE op = "saveCachedMetadata" ->
            saveCachedMetadata(dir, imageUrl, metadata, listing.splashScreens,
                               listing.screenshots)
      [] op = "invalidateMetadataCache" ->
            invalidateMetadataCache(dir, listing.splashScreens, listing.screenshots)
      [] op = "ensureMetadataHash" ->
            ensureMetadataHash(dir, listing.splashScreens, listing.screenshots)
      [] OTHER -> dir

\* the files of the tree
FilesOnDisk(tree) == {p \in DOMAIN tree : tree[p] # DirectoryNode}

InitDisk ==
    /\ CacheIdle /\ HashIdle /\ KeyIdle
    /\ localStorage = EmptyDir /\ storageMode = "ok" /\ show = FALSE /\ mounted = FALSE
    /\ inFlight = <<>>
    /\ disk = (ProjectRoot :> DirectoryNode)
    /\ musicPlayer = <<>>

diskRest ==
    <<imageCacheDir, metadataCacheDir, savedImages, everSavedMetadata, savedMetadata,
      hashArgs, hashResults, keyArgs, keyResults, pageVars, inFlight, musicPlayer>>

ImageCacheOnDisk(op, listing, options) ==
    LET after == onDisk(disk, imageCachePath(ProjectRoot),
                        LAMBDA dir : imageCacheFilesAfter(op, dir, listing, options))
    IN /\ Cardinality(FilesOnDisk(after)) <= MaxFiles
       /\ disk' = after
       /\ lastOp' = [op |-> op, cache |-> "image",
                     removed |-> DOMAIN disk \ DOMAIN after]
       /\ UNCHANGED diskRest

MetadataCacheOnDisk(op, imageUrl, metadata, listing) ==
    LET after == onDisk(disk, metadataCachePath(ProjectRoot),
                        LAMBDA dir : metadataCacheFilesAfter(op, dir, imageUrl, metadata,
                                                             listing))
    IN /\ Cardinality(FilesOnDisk(after)) <= MaxFiles
       /\ disk' = after
       /\ lastOp' = [op |-> op, cache |-> "metadata",
                     removed |-> DOMAIN disk \ DOMAIN after]
       /\ UNCHANGED diskRest

NextDisk ==
    \/ \E op \in ImageCacheOps, l \in Listings, o \in CacheOptions :
          ImageCacheOnDisk(op, l, o)
    \/ \E op \in MetadataCacheOps, u \in ImageUrls, m \in {<<>>, <<FullInfo>>},
          l \in Listings :
          MetadataCacheOnDisk(op, u, m, l)

SpecDisk == InitDisk /\ [][NextDisk]_vars

\* the part of the tree at and under a directory
Under(tree, dirPath) ==
    [p \in {q \in DOMAIN tree : q = dirPath \/ startsWith(q, dirPath \o "/")} |-> tree[p]]

\* C27: no operation of the metadata cache creates, modifies or deletes a
\* file of the optimization cache directory, and no operation of the
\* optimization cache one of the metadata cache directory.
C27_CachesAreDisjoint ==
    [][/\ lastOp'.cache = "metadata" =>
             Under(disk', imageCachePath(ProjectRoot))
                = Under(disk, imageCachePath(ProjectRoot))
       /\ lastOp'.cache = "image" =>
             Under(disk', metadataCachePath(ProjectRoot))
                = Under(disk, metadataCachePath(ProjectRoot))]_vars

\* a sweep of the metadata cache has removed an entry while the optimization
\* cache holds an entry of another fingerprint than the sweep's survivors
C27_Witness ==
    /\ lastOp.op = "invalidateMetadataCache"
    /\ lastOp.removed # {}
    /\ FilesOnDisk(Under(disk, imageCachePath(ProjectRoot))) # {}
    /\ FilesOnDisk(Under(disk, metadataCachePath(ProjectRoot))) = {}


\* the fingerprint and the options key of the fetchMedia request that ran last
RequestHash == Fingerprint(lastOp.data[1])

RequestKey == getOptimizationCacheKey(optimizeOptsOf(lastOp.input))

\* the request found an entry file and could not load it
FoundUnreadableEntry ==
    /\ lastOp.op = "fetchMedia" /\ ~lastOp.threw /\ lastOp.input.optimize
    /\ lastOp.hasCache /\ lastOp.optimized

\* what loadCachedImages answers for the request's key after the request
LoadAfterRequest ==
    loadCachedImagesUnder(imageCacheDir, RequestHash, RequestKey, lastOp.data[1], {}).value

\* C28: when hasCachedImages(F, K) is true and loadCachedImages returns
\* null, the request is no error: it optimizes all items anew, overwrites
\* the entry of (F, K) and returns the items just optimized, and a
\* loadCachedImages(F, K, items) after it returns non-null.
C28_UnreadableEntryIsRepaired ==
    FoundUnreadableEntry =>
        /\ lastOp.result[1] \in OptimizedListings(lastOp.data[1], optimizeOptsOf(lastOp.input))
        /\ imageCacheDir[getCacheFilePath(RequestHash, RequestKey)]
              = [splashScreens |-> UrlMappings(lastOp.result[1].splashScreens),
                 screenshots |-> UrlMappings(lastOp.result[1].screenshots)]
        /\ LoadAfterRequest # <<>>

\* the damaged entry met and replaced, one item optimized and one not
C28_Witness ==
    /\ FoundUnreadableEntry
    /\ lastOp.result[1].splashScreens[1].url # UrlA
    /\ lastOp.result[1].screenshots[1].url = UrlB
    /\ ~IsCorrupt(imageCacheDir[getCacheFilePath(RequestHash, RequestKey)])


\* an optimizing fetchMedia request is the step taken
OptimizingRequest ==
    lastOp'.op = "fetchMedia" /\ ~lastOp'.threw /\ lastOp'.input.optimize

\* the entry file of the request of the step
RequestPath ==
    getCacheFilePath(Fingerprint(lastOp'.data[1]),
                     getOptimizationCacheKey(optimizeOptsOf(lastOp'.input)))

\* the mapping original -> original of a url
Unoptimized(url) == [originalUrl |-> url, optimizedUrl |-> url]

\* a cache-miss run returns an item whose optimization failed with its own
\* url and writes the mapping original -> original for it
FailureIsWritten ==
    (OptimizingRequest /\ lastOp'.optimized) =>
        \A c \in Categories : \A i \in 1..Len(lastOp'.data[1][c]) :
            lastOp'.result[1][c][i].url = lastOp'.data[1][c][i].url
                => imageCacheDir'[RequestPath][c][i] = Unoptimized(lastOp'.data[1][c][i].url)

\* the step is a request whose entry file exists and parses
EntryAtHand ==
    /\ OptimizingRequest
    /\ RequestPath \in DOMAIN imageCacheDir
    /\ ~IsCorrupt(imageCacheDir[RequestPath])

\* C29 as stated: a failed optimization is written as original -> original
\* to the entry of (F, K), and every later fetchMedia request with the same
\* fingerprint and options serves that url from the cache without
\* optimizing again.
C29_FailureIsServedFromCache ==
    [][/\ FailureIsWritten
       /\ EntryAtHand =>
             /\ ~lastOp'.optimized
             /\ imageCacheDir' = imageCacheDir
             /\ \A c \in Categories : \A i \in 1..Len(lastOp'.data[1][c]) :
                   Unoptimized(lastOp'.data[1][c][i].url)
                         \in Range(imageCacheDir[RequestPath][c])
                      => lastOp'.result[1][c][i].url = lastOp'.data[1][c][i].url]_vars

\* C29 (amended): a failed optimization is written as original -> original
\* to the entry of (F, K), and every later fetchMedia request with the same
\* fingerprint and options runs no optimization, leaves the entry as it is
\* and serves an item with its own url when the first mapping the entry
\* holds for that url is original -> original.
C29_FirstFailureIsServedFromCache ==
    [][/\ FailureIsWritten
       /\ EntryAtHand =>
             /\ ~lastOp'.optimized
             /\ imageCacheDir' = imageCacheDir
             /\ \A c \in Categories : \A i \in 1..Len(lastOp'.data[1][c]) :
                   FindMapping(imageCacheDir[RequestPath][c], lastOp'.data[1][c][i].url)
                         = <<Unoptimized(lastOp'.data[1][c][i].url)>>
                      => lastOp'.result[1][c][i].url = lastOp'.data[1][c][i].url]_vars

\* a request answered from the cache with the url of a screenshot whose
\* optimization had failed, next to a splash screen that was optimized
C29_Witness ==
    /\ lastOp.op = "fetchMedia" /\ ~lastOp.threw /\ lastOp.input.optimize
    /\ lastOp.hasCache /\ ~lastOp.optimized
    /\ lastOp.result[1].screenshots = <<OptimizedItem(ItemB, NoOptions, FALSE)>>
    /\ lastOp.result[1].splashScreens[1].url # UrlA


(***************************************************************************)
(* components/music-player/music-player.tsx: the track index               *)
(*   A number is <<n>> for the integer n and <<>> for NaN; a comparison    *)
(*   with NaN is false.                                                    *)
(***************************************************************************)
STORAGE_KEY_PLAYLIST_INDEX == "music-player-playlist-index"

NaN == <<>>

RECURSIVE skipWhitespace(_)
skipWhitespace(str) ==
    IF str # "" /\ CharAt(str, 1) \in {" ", "\t", "\n"} THEN skipWhitespace(From(str, 2))
    ELSE str

\* Number.parseInt(str, 10): leading whitespace, a sign, the leading digits
parseIntSigned(str) ==
    LET s == skipWhitespace(str)
        negative == s # "" /\ CharAt(s, 1) = "-"
        digits == IF s # "" /\ CharAt(s, 1) \in {"-", "+"} THEN From(s, 2) ELSE s
    IN IF parseInt(digits) = <<>> THEN NaN
       ELSE IF negative THEN <<0 - parseInt(digits)[1]>> ELSE parseInt(digits)

\* Math.min of two numbers
MathMin(a, b) == IF a = NaN \/ b = NaN THEN NaN ELSE IF a[1] < b[1] THEN a ELSE b

\* a < b of two numbers
LessThan(a, b) == a # NaN /\ b # NaN /\ a[1] < b[1]

\* a >= b of two numbers
AtLeast(a, b) == a # NaN /\ b # NaN /\ a[1] >= b[1]

\* calculateInitialIndex, lines 231-248; defaultIndexStr is the value of
\* PUBLIC_YOUTUBE_DEFAULT_SONG_INDEX, <<>> when not set
calculateInitialIndex(storage, defaultIndexStr, length) ==
    LET savedIndex == getItem(storage, "ok", STORAGE_KEY_PLAYLIST_INDEX).value
        defaultIndex == parseIntSigned(defaultIndexStr[1])
    IN IF savedIndex # <<>> /\ savedIndex[1] # ""
       THEN MathMin(parseIntSigned(savedIndex[1]), <<length - 1>>)
       ELSE IF defaultIndexStr # <<>> /\ defaultIndexStr[1] # ""
               /\ defaultIndex # NaN /\ defaultIndex[1] >= 0
       THEN MathMin(defaultIndex, <<length - 1>>)
       ELSE <<0>>

\* items[index] is an item
IsTrack(index, length) == index # NaN /\ index[1] \in 0..(length - 1)

\* onMount, lines 250-430, for a playlist of length items: the signals it
\* leaves; initPlayer makes the player only when items[initialIndex] is an item
mountMusicPlayer(storage, defaultIndexStr, length) ==
    LET initialIndex == calculateInitialIndex(storage, defaultIndexStr, length)
    IN [length |-> length, currentTrackIndex |-> initialIndex,
        player |-> IsTrack(initialIndex, length)]

\* saveCurrentIndex, lines 171-174
saveCurrentIndex(signals, storage, index) ==
    [signals |-> [signals EXCEPT !.currentTrackIndex = index],
     storage |-> setItem(storage, "ok", STORAGE_KEY_PLAYLIST_INDEX,
                         ToString(index[1])).storage]

\* loadVideo, lines 177-200; loaded tells whether loadVideoById resolved.
\* For a NaN index items[index].videoId throws before anything is changed.
loadVideo(signals, storage, index, loaded) ==
    IF LessThan(index, <<0>>) \/ AtLeast(index, <<signals.length>>)
    THEN [signals |-> signals, storage |-> storage]
    ELSE IF index = NaN THEN [signals |-> signals, storage |-> storage]
    ELSE IF ~signals.player THEN [signals |-> signals, storage |-> storage]
    ELSE IF loaded THEN saveCurrentIndex(signals, storage, index)
    ELSE [signals |-> signals, storage |-> storage]

\* newIndex of playPrevious, line 487
previousIndex(signals) ==
    IF LessThan(<<0>>, signals.currentTrackIndex)
    THEN <<signals.currentTrackIndex[1] - 1>>
    ELSE <<signals.length - 1>>

\* newIndex of playNext, line 494
nextIndex(signals) ==
    IF LessThan(signals.currentTrackIndex, <<signals.length - 1>>)
    THEN <<signals.currentTrackIndex[1] + 1>>
    ELSE <<0>>

(***************************************************************************)
(* SpecMusic: pages with the music player and a playlist that is not empty *)
(***************************************************************************)
\* longest playlist
MaxTracks == 3

\* what may be stored under the index key when the page loads
StoredIndexes == {"0", "1", "7", "-1", "abc", "", " 2", "1.5"}

DefaultIndexes == {<<>>, <<"1">>, <<"-1">>, <<"x">>}

InitMusic ==
    /\ CacheIdle /\ HashIdle /\ KeyIdle
    /\ localStorage \in {EmptyDir}
                           \cup {(STORAGE_KEY_PLAYLIST_INDEX :> v) : v \in StoredIndexes}
    /\ storageMode = "ok" /\ show = FALSE /\ mounted = FALSE
    /\ inFlight = <<>>
    /\ disk = EmptyDir
    /\ musicPlayer = <<>>

musicRest ==
    <<imageCacheDir, metadataCacheDir, savedImages, everSavedMetadata, savedMetadata,
      hashArgs, hashResults, keyArgs, keyResults, storageMode, show, mounted, inFlight,
      disk>>

MountMusicPlayer(length, defaultIndexStr) ==
    /\ musicPlayer = <<>>
    /\ musicPlayer' = mountMusicPlayer(localStorage, defaultIndexStr, length)
    /\ lastOp' = [op |-> "onMount", stored |-> localStorage]
    /\ UNCHANGED <<localStorage, musicRest>>

PlayPrevious(loaded) ==
    /\ musicPlayer # <<>>
    /\ LET call == loadVideo(musicPlayer, localStorage, previousIndex(musicPlayer), loaded)
       IN /\ musicPlayer' = call.signals
          /\ localStorage' = call.storage
          /\ lastOp' = [op |-> "playPrevious", from |-> musicPlayer.currentTrackIndex,
                        loaded |-> loaded /\ musicPlayer.player, stored |-> localStorage]
    /\ UNCHANGED musicRest

PlayNext(loaded) ==
    /\ musicPlayer # <<>>
    /\ LET call == loadVideo(musicPlayer, localStorage, nextIndex(musicPlayer), loaded)
       IN /\ musicPlayer' = call.signals
          /\ localStorage' = call.storage
          /\ lastOp' = [op |-> "playNext", from |-> musicPlayer.currentTrackIndex,
                        loaded |-> loaded /\ musicPlayer.player, stored |-> localStorage]
    /\ UNCHANGED musicRest

\* the page is left: the component is gone, the storage stays
LeavePage ==
    /\ musicPlayer # <<>>
    /\ musicPlayer' = <<>>
    /\ lastOp' = [op |-> "leave"]
    /\ UNCHANGED <<localStorage, musicRest>>

NextMusic ==
    \/ \E length \in 1..MaxTracks, d \in DefaultIndexes : MountMusicPlayer(length, d)
    \/ \E loaded \in BOOLEAN : PlayPrevious(loaded)
    \/ \E loaded \in BOOLEAN : PlayNext(loaded)
    \/ LeavePage

SpecMusic == InitMusic /\ [][NextMusic]_vars

\* C30: for a playlist that is not empty and every stored value of the saved
\* index, after initialisation and after any sequence of playNext and
\* playPrevious currentTrackIndex is an integer of 0..length-1; playNext
\* from the last track goes to 0 and playPrevious from 0 to the last; the
\* index changes and is persisted only when the video load succeeded.
C30_TrackIndexInRange ==
    musicPlayer # <<>> =>
        /\ IsTrack(musicPlayer.currentTrackIndex, musicPlayer.length)
        /\ (lastOp.op = "playNext" /\ lastOp.loaded /\ lastOp.from = <<musicPlayer.length - 1>>)
              => musicPlayer.currentTrackIndex = <<0>>
        /\ (lastOp.op = "playPrevious" /\ lastOp.loaded /\ lastOp.from = <<0>>)
              => musicPlayer.currentTrackIndex = <<musicPlayer.length - 1>>
        /\ (lastOp.op \in {"playNext", "playPrevious"} /\ ~lastOp.loaded)
              => (musicPlayer.currentTrackIndex = lastOp.from
                  /\ localStorage = lastOp.stored)

====
